---- MODULE Spec2Model ----
(***************************************************************************)
(* A model of cargo-lichking: the License value type (parsing, display,    *)
(* ordering), the compatibility predicate License::can_include and the     *)
(* dependency traversal resolve_packages, the compatibility check of a     *)
(* root (check::run), the scoring of a license text against a template     *)
(* (check_against_template) and the bundle run (bundle::run).              *)
(*                                                                         *)
(* A License is a record [tag, arg]: tag is the enum variant's name, arg   *)
(* its payload (the text of Custom, the path of File, the members of       *)
(* Multiple, <<>> for the variants without a payload).                     *)
(* A string is a sequence of atoms: a word, one space " " or one "/".      *)
(***************************************************************************)
EXTENDS Integers, Sequences, FiniteSets, TLC

VARIABLES consumer, dependency, answer, cpc,
          input, license, shown, reparsed, reshown, ppc,
          packages, resolve, roots, to_check, added, result, ret, rpc,
          check_root, check_packages, cursor, fail, log, check_ret, kpc,
          text, scored, templates, errors, total, confidence, spc,
          bundle_packages, variant, found, liches, context, bundle_ret, bpc,
          find_license, dir, entry_pos, find_generic, find_texts, find_ret, fpc,
          metadata_licenses, main_roots, root_pos, main_error, checks, main_ret, mpc

compatVars == <<consumer, dependency, answer, cpc>>

parseVars == <<input, license, shown, reparsed, reshown, ppc>>

\* metadata.packages, metadata.resolve and the roots resolve_packages is given.
graphVars == <<packages, resolve, roots>>

resolveVars == <<graphVars, to_check, added, result, ret, rpc>>

\* check::run: its arguments, its loop position, its counter, what it logged
\* and what it returned.
checkVars == <<check_root, check_packages, cursor, fail, log, check_ret, kpc>>

\* check_against_template: its arguments, the templates of the licenses, the
\* two counts of the score and the tier returned.
scoreVars == <<text, scored, templates, errors, total, confidence, spc>>

\* bundle::run: the packages and the output variant it is given, what the
\* discovery found for each package, the results gathered, the Context and
\* what it returned.
bundleVars == <<bundle_packages, variant, found, liches, context, bundle_ret, bpc>>

\* better_find: the license it is given, the directory of the package as
\* read_dir lists it, the position in it, the locals generic and texts and
\* what it returned.
findVars == <<find_license, dir, entry_pos, find_generic, find_texts, find_ret, fpc>>

\* The check command of main: the license of each package of the metadata,
\* the roots, the position in them, the local error, what was checked for
\* each root so far and how the command ended.
mainVars == <<metadata_licenses, main_roots, root_pos, main_error, checks, main_ret, mpc>>

vars == <<compatVars, parseVars, resolveVars, checkVars, scoreVars, bundleVars,
          findVars, mainVars>>

(***************************************************************************)
(* enum License (license.rs 15-46), in declaration order: the derived Ord  *)
(* compares variants by this position.                                     *)
(***************************************************************************)
Variants ==
    << "Unlicense", "BSD_0_Clause", "CC0_1_0", "MIT", "X11", "BSD_2_Clause",
       "BSD_3_Clause", "Apache_2_0", "Apache_2_0_WITH_LLVM_exception",
       "LGPL_2_0", "LGPL_2_1", "LGPL_2_1Plus", "LGPL_3_0", "LGPL_3_0Plus",
       "MPL_1_1", "MPL_2_0", "GPL_2_0", "GPL_2_0Plus", "GPL_3_0",
       "GPL_3_0Plus", "AGPL_3_0", "AGPL_3_0Plus", "Zlib",
       "Custom", "File", "Multiple", "Unspecified" >>

\* The variants that carry no payload and name one SPDX license.
CanonicalTags == { Variants[i] : i \in 1..23 }

Lic(t) == [tag |-> t, arg |-> <<>>]

Custom(s) == [tag |-> "Custom", arg |-> s]

File(p) == [tag |-> "File", arg |-> p]

Multiple(ls) == [tag |-> "Multiple", arg |-> ls]

Unspecified == Lic("Unspecified")

\* Option<bool>, the result of can_include.
Yes == "Some(true)"

No == "Some(false)"

Unknown == "None"

(***************************************************************************)
(* The compatibility! table of can_include (license.rs 122-153): for the   *)
(* variant of self, the variants of other that return Some(true).  The     *)
(* variants without a row of their own fall to the `_` arm.                *)
(***************************************************************************)
Permissive == {"Unlicense", "BSD_0_Clause", "CC0_1_0", "MIT", "X11"}

BSDs == {"BSD_2_Clause", "BSD_3_Clause"}

Compatibility(t) ==
    CASE t = "Unspecified"  -> {"Unlicense", "MIT", "X11", "BSD_2_Clause", "BSD_3_Clause"}
      [] t = "LGPL_2_0"     -> {"LGPL_2_0"}
      [] t \in Permissive   -> Permissive
      [] t \in BSDs         -> Permissive \cup BSDs
      [] t = "Apache_2_0"   -> Permissive \cup BSDs \cup {"Apache_2_0"}
      [] t = "MPL_1_1"      -> Permissive \cup BSDs \cup {"MPL_1_1"}
      [] t = "MPL_2_0"      -> Permissive \cup BSDs \cup {"Apache_2_0", "MPL_2_0"}
      [] t = "LGPL_2_1Plus" -> Permissive \cup BSDs \cup {"MPL_2_0", "LGPL_2_1Plus"}
      [] t = "LGPL_2_1"     -> Permissive \cup BSDs \cup {"MPL_2_0", "LGPL_2_1Plus", "LGPL_2_1"}
      [] t = "LGPL_3_0Plus" -> Permissive \cup BSDs \cup
                                 {"MPL_2_0", "Apache_2_0", "LGPL_2_1Plus", "LGPL_3_0Plus"}
      [] t = "LGPL_3_0"     -> Permissive \cup BSDs \cup
                                 {"MPL_2_0", "Apache_2_0", "LGPL_2_1Plus", "LGPL_3_0Plus",
                                  "LGPL_3_0"}
      [] t = "GPL_2_0Plus"  -> Permissive \cup BSDs \cup
                                 {"MPL_2_0", "LGPL_2_1Plus", "LGPL_2_1", "GPL_2_0Plus"}
      [] t = "GPL_2_0"      -> Permissive \cup BSDs \cup
                                 {"MPL_2_0", "LGPL_2_1Plus", "LGPL_2_1", "GPL_2_0Plus",
                                  "GPL_2_0"}
      [] t = "GPL_3_0Plus"  -> Permissive \cup BSDs \cup
                                 {"MPL_2_0", "Apache_2_0", "LGPL_2_1Plus", "LGPL_2_1",
                                  "GPL_2_0Plus", "GPL_3_0Plus"}
      [] t = "GPL_3_0"      -> Permissive \cup BSDs \cup
                                 {"MPL_2_0", "Apache_2_0", "LGPL_2_1Plus", "LGPL_2_1",
                                  "GPL_2_0Plus", "GPL_3_0Plus", "GPL_3_0"}
      [] t = "AGPL_3_0Plus" -> Permissive \cup BSDs \cup
                                 {"MPL_2_0", "Apache_2_0", "LGPL_2_1Plus", "LGPL_2_1",
                                  "GPL_2_0Plus", "GPL_3_0Plus", "GPL_3_0", "AGPL_3_0Plus"}
      [] t = "AGPL_3_0"     -> Permissive \cup BSDs \cup
                                 {"MPL_2_0", "Apache_2_0", "LGPL_2_1Plus", "LGPL_2_1",
                                  "GPL_2_0Plus", "GPL_3_0Plus", "GPL_3_0", "AGPL_3_0Plus",
                                  "AGPL_3_0"}
      [] OTHER              -> {"MIT"}

\* The rule left out.
OtherIsUnspecifiedNot(other) == FALSE

\* license.rs 71-73: the first rule of can_include.
OtherIsUnspecified(other) == other.tag = "Unspecified"

\* The two File checks left out.
CustomOnly(self, other) == self.tag = "Custom" \/ other.tag = "Custom"

\* license.rs 75-86: either side is Custom(_) or File(_).
CustomOrFile(self, other) ==
    \/ self.tag = "Custom"
    \/ other.tag = "Custom"
    \/ self.tag = "File"
    \/ other.tag = "File"

\* The test of the consumer alone.
SelfLGPL_2_0(self, other) == self.tag = "LGPL_2_0"

\* license.rs 115-120: either side is LGPL_2_0.
EitherLGPL_2_0(self, other) == self.tag = "LGPL_2_0" \/ other.tag = "LGPL_2_0"

\* A pair the table does not list taken as unknown.
TableLookupOrUnknown(self, other) ==
    IF other.tag \in Compatibility(self.tag) THEN Yes ELSE Unknown

\* license.rs 122-155: Some(true) from the table, Some(false) after it.
TableLookup(self, other) ==
    IF other.tag \in Compatibility(self.tag) THEN Yes ELSE No

RECURSIVE can_include(_, _)

RECURSIVE SelfLoop(_, _, _)

RECURSIVE OtherLoop(_, _, _, _)

\* license.rs 88-99: the loop over the members of self, from member i on.
SelfLoop(licenses, other, i) ==
    IF i > Len(licenses) THEN Yes
    ELSE LET r == can_include(licenses[i], other)
         IN  IF r = No THEN No
             ELSE IF r = Unknown THEN Unknown
             ELSE SelfLoop(licenses, other, i + 1)

RECURSIVE OtherLoopStopAtNone(_, _, _, _)

\* The loop returning None at the first member that yields None, as the loop
\* over the members of self does.
OtherLoopStopAtNone(self, licenses, i, seen_none) ==
    IF i > Len(licenses) THEN No
    ELSE LET r == can_include(self, licenses[i])
         IN  IF r = Yes THEN Yes
             ELSE IF r = Unknown THEN Unknown
             ELSE OtherLoopStopAtNone(self, licenses, i + 1, seen_none)

\* license.rs 101-113: the loop over the members of other, from member i on.
OtherLoop(self, licenses, i, seen_none) ==
    IF i > Len(licenses) THEN (IF seen_none THEN Unknown ELSE No)
    ELSE LET r == can_include(self, licenses[i])
         IN  IF r = Yes THEN Yes
             ELSE OtherLoop(self, licenses, i + 1, seen_none \/ r = Unknown)

\* license.rs 68-156
can_include(self, other) ==
    IF OtherIsUnspecified(other) THEN No
    ELSE IF CustomOrFile(self, other) THEN Unknown
    ELSE IF self.tag = "Multiple" THEN SelfLoop(self.arg, other, 1)
    ELSE IF other.tag = "Multiple" THEN OtherLoop(self, other.arg, 1, FALSE)
    ELSE IF EitherLGPL_2_0(self, other) THEN Unknown
    ELSE TableLookup(self, other)

(***************************************************************************)
(* Strings.  The atoms in the byte order of the text they stand for; the   *)
(* derived Ord of License compares the text of two Custom values as Rust   *)
(* compares Strings, byte by byte.  Atom by atom is the same order as long *)
(* as no atom of the compared strings is a prefix of another, which holds  *)
(* of InputAtoms.                                                          *)
(***************************************************************************)
AtomOrder ==
    << " ", "(", ")", "/", "0BSD",
       "AGPL-3.0", "AGPL-3.0+", "AGPL-3.0-only", "AGPL-3.0-or-later",
       "Apache-2.0", "BSD-2-Clause", "BSD-3-Clause", "CC0-1.0", "COPYING", "Foo",
       "GPL-2.0", "GPL-2.0+", "GPL-2.0-only", "GPL-2.0-or-later",
       "GPL-3.0", "GPL-3.0+", "GPL-3.0-only", "GPL-3.0-or-later",
       "LGPL-2.0", "LGPL-2.0-only", "LGPL-2.1", "LGPL-2.1+", "LGPL-2.1-only",
       "LGPL-2.1-or-later", "LGPL-3.0", "LGPL-3.0+", "LGPL-3.0-only",
       "LGPL-3.0-or-later", "LLVM-exception", "License", "MIT", "MPL-1.1",
       "MPL-2.0", "No", "OR", "Unlicense", "WITH", "X11", "Zlib",
       "file", "in", "license", "specified" >>

AtomRank(a) == CHOOSE i \in 1..Len(AtomOrder) : AtomOrder[i] = a

VariantIndex(t) == CHOOSE i \in 1..Len(Variants) : Variants[i] = t

RECURSIVE CmpStr(_, _)

\* <str as Ord>::cmp: -1, 0 or 1.
CmpStr(a, b) ==
    IF a = <<>> /\ b = <<>> THEN 0
    ELSE IF a = <<>> THEN -1
    ELSE IF b = <<>> THEN 1
    ELSE IF AtomRank(Head(a)) < AtomRank(Head(b)) THEN -1
    ELSE IF AtomRank(Head(a)) > AtomRank(Head(b)) THEN 1
    ELSE CmpStr(Tail(a), Tail(b))

RECURSIVE CmpLicense(_, _)

RECURSIVE CmpVec(_, _)

\* <Vec<License> as Ord>::cmp: lexicographic.
CmpVec(a, b) ==
    IF a = <<>> /\ b = <<>> THEN 0
    ELSE IF a = <<>> THEN -1
    ELSE IF b = <<>> THEN 1
    ELSE LET c == CmpLicense(Head(a), Head(b))
         IN  IF c # 0 THEN c ELSE CmpVec(Tail(a), Tail(b))

\* #[derive(Ord)] on License (license.rs 13): the variant's position, then
\* the payload.
CmpLicense(a, b) ==
    IF VariantIndex(a.tag) < VariantIndex(b.tag) THEN -1
    ELSE IF VariantIndex(a.tag) > VariantIndex(b.tag) THEN 1
    ELSE IF a.tag \in {"Custom", "File"} THEN CmpStr(a.arg, b.arg)
    ELSE IF a.tag = "Multiple" THEN CmpVec(a.arg, b.arg)
    ELSE 0

RECURSIVE InsertSorted(_, _)

InsertSorted(l, sorted) ==
    IF sorted = <<>> THEN <<l>>
    ELSE IF CmpLicense(l, Head(sorted)) < 0 THEN <<l>> \o sorted
    ELSE <<Head(sorted)>> \o InsertSorted(l, Tail(sorted))

RECURSIVE SortedFrom(_, _)

SortedFrom(ls, i) ==
    IF i > Len(ls) THEN <<>>
    ELSE InsertSorted(ls[i], SortedFrom(ls, i + 1))

\* The sort left out.
SortLicensesNot(ls) == ls

\* license.rs 215: licenses.sort().  The order is total and equal values are
\* identical, so every sorting algorithm gives this result.
SortLicenses(ls) == SortedFrom(ls, 1)

(***************************************************************************)
(* from_str (license.rs 182-220)                                           *)
(***************************************************************************)
RECURSIVE TrimStart(_)

TrimStart(s) == IF s # <<>> /\ Head(s) = " " THEN TrimStart(Tail(s)) ELSE s

RECURSIVE TrimEnd(_)

TrimEnd(s) ==
    IF s # <<>> /\ s[Len(s)] = " " THEN TrimEnd(SubSeq(s, 1, Len(s) - 1)) ELSE s

\* The trim left out.
TrimNot(s) == s

\* license.rs 183: s.trim()
Trim(s) == TrimEnd(TrimStart(s))

\* license.rs 184-206: the identifiers and aliases matched exactly, in the
\* order of the arms.
NameTable ==
    << <<<<"Unlicense">>, "Unlicense">>,
       <<<<"0BSD">>, "BSD_0_Clause">>,
       <<<<"CC0-1.0">>, "CC0_1_0">>,
       <<<<"MIT">>, "MIT">>,
       <<<<"X11">>, "X11">>,
       <<<<"BSD-2-Clause">>, "BSD_2_Clause">>,
       <<<<"BSD-3-Clause">>, "BSD_3_Clause">>,
       <<<<"Apache-2.0">>, "Apache_2_0">>,
       <<<<"Apache-2.0", " ", "WITH", " ", "LLVM-exception">>,
         "Apache_2_0_WITH_LLVM_exception">>,
       <<<<"LGPL-2.0-only">>, "LGPL_2_0">>, <<<<"LGPL-2.0">>, "LGPL_2_0">>,
       <<<<"LGPL-2.1-only">>, "LGPL_2_1">>, <<<<"LGPL-2.1">>, "LGPL_2_1">>,
       <<<<"LGPL-2.1-or-later">>, "LGPL_2_1Plus">>, <<<<"LGPL-2.1+">>, "LGPL_2_1Plus">>,
       <<<<"LGPL-3.0-only">>, "LGPL_3_0">>, <<<<"LGPL-3.0">>, "LGPL_3_0">>,
       <<<<"LGPL-3.0-or-later">>, "LGPL_3_0Plus">>, <<<<"LGPL-3.0+">>, "LGPL_3_0Plus">>,
       <<<<"MPL-1.1">>, "MPL_1_1">>,
       <<<<"MPL-2.0">>, "MPL_2_0">>,
       <<<<"GPL-2.0-only">>, "GPL_2_0">>, <<<<"GPL-2.0">>, "GPL_2_0">>,
       <<<<"GPL-2.0-or-later">>, "GPL_2_0Plus">>, <<<<"GPL-2.0+">>, "GPL_2_0Plus">>,
       <<<<"GPL-3.0-only">>, "GPL_3_0">>, <<<<"GPL-3.0">>, "GPL_3_0">>,
       <<<<"GPL-3.0-or-later">>, "GPL_3_0Plus">>, <<<<"GPL-3.0+">>, "GPL_3_0Plus">>,
       <<<<"AGPL-3.0-only">>, "AGPL_3_0">>, <<<<"AGPL-3.0">>, "AGPL_3_0">>,
       <<<<"AGPL-3.0-or-later">>, "AGPL_3_0Plus">>, <<<<"AGPL-3.0+">>, "AGPL_3_0Plus">>,
       <<<<"Zlib">>, "Zlib">> >>

\* The arm for "GPL-3.0-only" left out: only the older spelling is matched.
MatchingOldSpelling(s) ==
    { i \in 1..Len(NameTable) : NameTable[i][1] = s /\ s # <<"GPL-3.0-only">> }

\* The arms of the match that s matches exactly.
Matching(s) == { i \in 1..Len(NameTable) : NameTable[i][1] = s }

FirstMatch(s) == CHOOSE i \in Matching(s) : \A j \in Matching(s) : i <= j

\* license.rs 208: s.contains('/')
ContainsSlash(s) == \E i \in 1..Len(s) : s[i] = "/"

\* The places where " OR " starts in s.
OrAt(s) ==
    { i \in 1..(Len(s) - 2) : s[i] = " " /\ s[i + 1] = "OR" /\ s[i + 2] = " " }

\* license.rs 208: s.contains(" OR ")
ContainsOr(s) == OrAt(s) # {}

RECURSIVE SplitSlashNonEmpty(_)

\* The pieces between the slashes, the empty ones left out.
SplitSlashNonEmpty(s) ==
    IF s = <<>> THEN <<>>
    ELSE IF ~ContainsSlash(s) THEN <<s>>
    ELSE LET i == CHOOSE k \in 1..Len(s) : s[k] = "/" /\ \A j \in 1..(k - 1) : s[j] # "/"
         IN  (IF i = 1 THEN <<>> ELSE <<SubSeq(s, 1, i - 1)>>)
             \o SplitSlashNonEmpty(SubSeq(s, i + 1, Len(s)))

RECURSIVE SplitSlash(_)

\* license.rs 210: s.split('/'), the pieces in order (empty ones included).
SplitSlash(s) ==
    IF ~ContainsSlash(s) THEN <<s>>
    ELSE LET i == CHOOSE k \in 1..Len(s) : s[k] = "/" /\ \A j \in 1..(k - 1) : s[j] # "/"
         IN  <<SubSeq(s, 1, i - 1)>> \o SplitSlash(SubSeq(s, i + 1, Len(s)))

RECURSIVE SplitOr(_)

\* license.rs 211: s.split(" OR "): the matches are taken from the left and
\* do not overlap.
SplitOr(s) ==
    IF ~ContainsOr(s) THEN <<s>>
    ELSE LET i == CHOOSE k \in OrAt(s) : \A j \in OrAt(s) : k <= j
         IN  <<SubSeq(s, 1, i - 1)>> \o SplitOr(SubSeq(s, i + 3, Len(s)))

RECURSIVE FlatMapSplitOr(_)

\* license.rs 210-211: .split('/').flat_map(|s| s.split(" OR "))
FlatMapSplitOr(pieces) ==
    IF pieces = <<>> THEN <<>>
    ELSE SplitOr(Head(pieces)) \o FlatMapSplitOr(Tail(pieces))

Pieces(s) == FlatMapSplitOr(SplitSlash(s))

RECURSIVE from_str(_)

\* license.rs 182-220
from_str(s) ==
    LET t == Trim(s)
    IN  IF Matching(t) # {} THEN Lic(NameTable[FirstMatch(t)][2])
        ELSE IF ContainsSlash(t) \/ ContainsOr(t)
        THEN LET ps == Pieces(t)
             IN  Multiple(SortLicenses([i \in 1..Len(ps) |-> from_str(ps[i])]))
        ELSE Custom(t)

(***************************************************************************)
(* Display (license.rs 223-263)                                            *)
(***************************************************************************)
\* license.rs 226-248: the canonical spelling of each identifier.
DisplayName(t) ==
    CASE t = "Unlicense" -> <<"Unlicense">>
      [] t = "BSD_0_Clause" -> <<"0BSD">>
      [] t = "CC0_1_0" -> <<"CC0-1.0">>
      [] t = "MIT" -> <<"MIT">>
      [] t = "X11" -> <<"X11">>
      [] t = "BSD_2_Clause" -> <<"BSD-2-Clause">>
      [] t = "BSD_3_Clause" -> <<"BSD-3-Clause">>
      [] t = "Apache_2_0" -> <<"Apache-2.0">>
      [] t = "Apache_2_0_WITH_LLVM_exception" ->
            <<"Apache-2.0", " ", "WITH", " ", "LLVM-exception">>
      [] t = "LGPL_2_0" -> <<"LGPL-2.0-only">>
      [] t = "LGPL_2_1" -> <<"LGPL-2.1-only">>
      [] t = "LGPL_2_1Plus" -> <<"LGPL-2.1-or-later">>
      [] t = "LGPL_3_0" -> <<"LGPL-3.0-only">>
      [] t = "LGPL_3_0Plus" -> <<"LGPL-3.0-or-later">>
      [] t = "MPL_1_1" -> <<"MPL-1.1">>
      [] t = "MPL_2_0" -> <<"MPL-2.0">>
      [] t = "GPL_2_0" -> <<"GPL-2.0-only">>
      [] t = "GPL_2_0Plus" -> <<"GPL-2.0-or-later">>
      [] t = "GPL_3_0" -> <<"GPL-3.0-only">>
      [] t = "GPL_3_0Plus" -> <<"GPL-3.0-or-later">>
      [] t = "AGPL_3_0" -> <<"AGPL-3.0-only">>
      [] t = "AGPL_3_0Plus" -> <<"AGPL-3.0-or-later">>
      [] t = "Zlib" -> <<"Zlib">>

\* What the formatter holds after ls[0] panics on an empty Multiple.
Panicked == <<"<panic>">>

RECURSIVE fmt(_)

RECURSIVE FmtRest(_, _)

\* license.rs 255-257: " / " and the member, for each member after the first.
FmtRest(ls, i) ==
    IF i > Len(ls) THEN <<>>
    ELSE <<" ", "/", " ">> \o fmt(ls[i]) \o FmtRest(ls, i + 1)

\* license.rs 224-262
fmt(l) ==
    CASE l.tag \in CanonicalTags -> DisplayName(l.tag)
      [] l.tag = "Custom" -> l.arg
      [] l.tag = "File" ->
            <<"License", " ", "specified", " ", "in", " ", "file", " ", "(">>
                \o l.arg \o <<")">>
      [] l.tag = "Multiple" ->
            IF l.arg = <<>> THEN Panicked
            ELSE fmt(l.arg[1]) \o FmtRest(l.arg, 2)
      [] l.tag = "Unspecified" -> <<"No", " ", "license", " ", "specified">>

(***************************************************************************)
(* The licenses the compatibility check is run on.                         *)
(***************************************************************************)
\* The longest Multiple.
MaxMembers == 3

\* The variants the members of a Multiple are drawn from, by position in
\* Variants: MIT, Apache_2_0, LGPL_2_0, LGPL_2_1, GPL_2_0, GPL_3_0, Zlib, Custom.
MemberVariants == <<4, 8, 10, 11, 17, 19, 23, 24>>

MemberOf(k) ==
    IF Variants[MemberVariants[k]] = "Custom" THEN Custom(<<"Foo">>)
    ELSE Lic(Variants[MemberVariants[k]])

\* from_str sorts the members of a Multiple and makes at least two of them.
SortedPicks(n) ==
    { f \in [1..n -> 1..Len(MemberVariants)] : \A i \in 1..(n - 1) : f[i] <= f[i + 1] }

Multiples ==
    UNION { { Multiple([i \in 1..n |-> MemberOf(f[i])]) : f \in SortedPicks(n) }
            : n \in 2..MaxMembers }

Singles ==
    { Lic(t) : t \in CanonicalTags } \cup
    { Custom(<<"Foo">>), File(<<"COPYING">>), Unspecified }

Licenses == Singles \cup Multiples

\* A variable that holds no value yet.
NoLicense == Lic("<none>")

NoString == <<"<none>">>

CompatIdle ==
    /\ consumer = NoLicense
    /\ dependency = NoLicense
    /\ answer = "unset"
    /\ cpc = "idle"

ParseIdle ==
    /\ input = NoString
    /\ license = NoLicense
    /\ shown = NoString
    /\ reparsed = NoLicense
    /\ reshown = NoString
    /\ ppc = "idle"

\* Option<Resolve>::None
NoResolve == [nodes |-> <<[id |-> "<none>", deps |-> <<>>]>>]

NoReturn == [kind |-> "none", value |-> <<>>]

ResolveIdle ==
    /\ packages = <<>>
    /\ resolve = NoResolve
    /\ roots = <<>>
    /\ to_check = <<>>
    /\ added = {}
    /\ result = <<>>
    /\ ret = NoReturn
    /\ rpc = "idle"

Elements(seq) == { seq[i] : i \in 1..Len(seq) }

NoPackage == [id |-> "<none>", license |-> NoLicense]

CheckIdle ==
    /\ check_root = NoPackage
    /\ check_packages = <<>>
    /\ cursor = 0
    /\ fail = 0
    /\ log = <<>>
    /\ check_ret = NoReturn
    /\ kpc = "idle"

ScoreIdle ==
    /\ text = NoString
    /\ scored = NoLicense
    /\ templates = <<>>
    /\ errors = 0
    /\ total = 0
    /\ confidence = "unset"
    /\ spc = "idle"

NoContext == [missing_license |-> FALSE, low_quality_license |-> FALSE, issues |-> <<"<none>">>]

BundleIdle ==
    /\ bundle_packages = <<>>
    /\ variant = "<none>"
    /\ found = <<>>
    /\ liches = <<>>
    /\ context = NoContext
    /\ bundle_ret = NoReturn
    /\ bpc = "idle"

NoDir == <<[name |-> <<"<none>">>, content |-> "<none>"]>>

NoText == [path |-> 0, confidence |-> "<none>"]

FindIdle ==
    /\ find_license = NoLicense
    /\ dir = NoDir
    /\ entry_pos = 0
    /\ find_generic = NoText
    /\ find_texts = <<>>
    /\ find_ret = NoReturn
    /\ fpc = "idle"

MainIdle ==
    /\ metadata_licenses = <<>>
    /\ main_roots = <<>>
    /\ root_pos = 0
    /\ main_error = NoReturn
    /\ checks = <<>>
    /\ main_ret = NoReturn
    /\ mpc = "idle"

InitCompat ==
    /\ consumer \in Licenses
    /\ dependency \in Licenses
    /\ answer = "unset"
    /\ cpc = "call"
    /\ ParseIdle
    /\ ResolveIdle
    /\ CheckIdle
    /\ ScoreIdle
    /\ BundleIdle
    /\ FindIdle
    /\ MainIdle

\* check.rs 14: license.can_include(&package.license())
CanInclude ==
    /\ cpc = "call"
    /\ answer' = can_include(consumer, dependency)
    /\ cpc' = "returned"
    /\ UNCHANGED <<consumer, dependency, parseVars, resolveVars,
                 checkVars, scoreVars, bundleVars,
                 findVars, mainVars>>

NextCompat == CanInclude

SpecCompat == InitCompat /\ [][NextCompat]_vars

(***************************************************************************)
(* Parsing and display: a license string is parsed, the value displayed,   *)
(* the text parsed again and displayed again; or a License value built     *)
(* elsewhere (licensed.rs makes File and Unspecified) is displayed first.  *)
(***************************************************************************)
\* The longest input string, in atoms.
MaxLen == 5

InputAtoms == {" ", "/", "Apache-2.0", "Foo", "MIT", "OR"}

NamedInputs == { NameTable[i][1] : i \in 1..Len(NameTable) }

Inputs ==
    NamedInputs \cup UNION { [1..n -> InputAtoms] : n \in 0..MaxLen }

StartLicenses ==
    { Lic(t) : t \in CanonicalTags } \cup { File(<<"COPYING">>), Unspecified }

InitParse ==
    /\ \/ /\ input \in Inputs
          /\ license = NoLicense
          /\ ppc = "from_str"
       \/ /\ input = NoString
          /\ license \in StartLicenses
          /\ ppc = "to_string"
    /\ shown = NoString
    /\ reparsed = NoLicense
    /\ reshown = NoString
    /\ CompatIdle
    /\ ResolveIdle
    /\ CheckIdle
    /\ ScoreIdle
    /\ BundleIdle
    /\ FindIdle
    /\ MainIdle

\* license.rs 182: the declared license string is parsed.
FromStr ==
    /\ ppc = "from_str"
    /\ license' = from_str(input)
    /\ ppc' = "to_string"
    /\ UNCHANGED <<input, shown, reparsed, reshown, compatVars, resolveVars,
                 checkVars, scoreVars, bundleVars,
                 findVars, mainVars>>

\* license.rs 224: the value is displayed.
Display ==
    /\ ppc = "to_string"
    /\ shown' = fmt(license)
    /\ ppc' = "reparse"
    /\ UNCHANGED <<input, license, reparsed, reshown, compatVars, resolveVars,
                 checkVars, scoreVars, bundleVars,
                 findVars, mainVars>>

\* license.rs 182: the displayed text is parsed.
Reparse ==
    /\ ppc = "reparse"
    /\ reparsed' = from_str(shown)
    /\ ppc' = "redisplay"
    /\ UNCHANGED <<input, license, shown, reshown, compatVars, resolveVars,
                 checkVars, scoreVars, bundleVars,
                 findVars, mainVars>>

\* license.rs 224: the value parsed from the displayed text is displayed.
Redisplay ==
    /\ ppc = "redisplay"
    /\ reshown' = fmt(reparsed)
    /\ ppc' = "done"
    /\ UNCHANGED <<input, license, shown, reparsed, compatVars, resolveVars,
                 checkVars, scoreVars, bundleVars,
                 findVars, mainVars>>

NextParse == FromStr \/ Display \/ Reparse \/ Redisplay

SpecParse == InitParse /\ [][NextParse]_vars

(***************************************************************************)
(* resolve_packages (load.rs 83-115) over the metadata cargo reports.  A   *)
(* package is its id; the graph is resolve.nodes, each node with the deps  *)
(* cargo lists for it and each dep with its dep_kinds.                     *)
(***************************************************************************)
PkgIds == <<"a", "b", "c">>

IdSet == { PkgIds[i] : i \in 1..Len(PkgIds) }

\* The most dependency edges in a graph.
MaxDeps == 3

\* The most roots.
MaxRoots == 2

\* The dep_kinds an edge can carry.
KindLists ==
    { <<"Normal">>, <<"Development">>, <<"Build">>, <<"Development", "Normal">> }

EdgePairs == { e \in IdSet \X IdSet : e[1] # e[2] }

\* The ids of ids, in the order of PkgIds.
InOrder(ids) == SelectSeq(PkgIds, LAMBDA i : i \in ids)

\* The deps of node n: one NodeDep for each edge from n, ordered by pkg.
DepsOf(n, edges, kinds) ==
    LET targets == InOrder({ t \in IdSet : <<n, t>> \in edges })
    IN  [k \in 1..Len(targets) |->
            [pkg |-> targets[k], dep_kinds |-> kinds[<<n, targets[k]>>]]]

\* A Resolve with a node for each id of ids.
ResolveOf(ids, edges, kinds) ==
    LET ns == InOrder(ids)
    IN  [nodes |-> [k \in 1..Len(ns) |->
                      [id |-> ns[k], deps |-> DepsOf(ns[k], edges, kinds)]]]

Graphs(ids) ==
    UNION { { ResolveOf(ids, edges, kinds) : kinds \in [edges -> KindLists] }
            : edges \in { E \in SUBSET EdgePairs : Cardinality(E) <= MaxDeps } }

\* cargo reports every package and a node for every package; the cases with
\* the last package, or its node, missing, and with no resolve graph at all,
\* are the ones resolve_packages has an error for.
InitResolve ==
    /\ \/ /\ packages = PkgIds
          /\ resolve \in Graphs(IdSet) \cup Graphs(IdSet \ {"c"}) \cup {NoResolve}
       \/ /\ packages = InOrder(IdSet \ {"c"})
          /\ resolve \in Graphs(IdSet)
    /\ roots \in UNION { [1..n -> { packages[i] : i \in 1..Len(packages) }]
                         : n \in 0..MaxRoots }
    /\ to_check = <<>>
    /\ added = {}
    /\ result = <<>>
    /\ ret = NoReturn
    /\ rpc = "entry"
    /\ CompatIdle
    /\ ParseIdle
    /\ CheckIdle
    /\ ScoreIdle
    /\ BundleIdle
    /\ FindIdle
    /\ MainIdle

\* Every id passes for a package that was found.
PackageFoundAlways(id) == TRUE

\* query.rs 9-13: PackagesExt::by_id finds the package with this id.
PackageFound(id) == \E i \in 1..Len(packages) : packages[i] = id

NodesWith(id) == { i \in 1..Len(resolve.nodes) : resolve.nodes[i].id = id }

\* query.rs 21-26: ResolveExt::by_id finds the node with this id.
NodeFound(id) == NodesWith(id) # {}

NodeDeps(id) ==
    resolve.nodes[CHOOSE i \in NodesWith(id) : \A j \in NodesWith(id) : i <= j].deps

\* all() in place of any().
HasOnlyNormalKind(dep) == \A k \in 1..Len(dep.dep_kinds) : dep.dep_kinds[k] = "Normal"

\* load.rs 103-106: dep.dep_kinds.iter().any(|info| info.kind == Normal)
HasNormalKind(dep) == \E k \in 1..Len(dep.dep_kinds) : dep.dep_kinds[k] = "Normal"

\* load.rs 102-110: the pkg of each dep that has a Normal kind, in order.
NormalDeps(deps) ==
    LET kept == SelectSeq(deps, HasNormalKind)
    IN  [k \in 1..Len(kept) |-> kept[k].pkg]

Ok(v) == [kind |-> "Ok", value |-> v]

Err(msg, id) == [kind |-> "Err", value |-> <<msg, id>>]

\* No id counts as added before.
AlreadyAddedNever(id) == FALSE

\* load.rs 99: added.insert(id) is false: the id was added before.
AlreadyAdded(id) == id \in added

\* load.rs 87-96: the locals are set up and the resolve graph is looked for.
Begin ==
    /\ rpc = "entry"
    /\ result' = <<>>
    /\ added' = {}
    /\ to_check' = roots
    /\ IF resolve = NoResolve
       THEN rpc' = "returned" /\ ret' = Err("Couldn't load resolve graph", "")
       ELSE rpc' = "loop" /\ ret' = ret
    /\ UNCHANGED <<graphVars, compatVars, parseVars,
                 checkVars, scoreVars, bundleVars,
                 findVars, mainVars>>

\* load.rs 98-112: one turn of the while loop: an id is popped and, when it
\* was not added before, its package is pushed to the result and its deps
\* with a Normal kind are pushed to to_check.
Check ==
    /\ rpc = "loop"
    /\ to_check # <<>>
    /\ LET id == to_check[Len(to_check)]
           rest == SubSeq(to_check, 1, Len(to_check) - 1)
       IN  IF AlreadyAdded(id)
           THEN /\ to_check' = rest
                /\ UNCHANGED <<added, result, ret, rpc>>
           ELSE /\ added' = added \cup {id}
                /\ IF ~PackageFound(id)
                   THEN /\ ret' = Err("Couldn't find package", id)
                        /\ rpc' = "returned"
                        /\ to_check' = rest
                        /\ result' = result
                   ELSE /\ result' = Append(result, id)
                        /\ IF ~NodeFound(id)
                           THEN /\ ret' = Err("Couldn't find deps for package", id)
                                /\ rpc' = "returned"
                                /\ to_check' = rest
                           ELSE /\ to_check' = rest \o NormalDeps(NodeDeps(id))
                                /\ UNCHANGED <<ret, rpc>>
    /\ UNCHANGED <<graphVars, compatVars, parseVars,
                 checkVars, scoreVars, bundleVars,
                 findVars, mainVars>>

\* load.rs 98, 114: to_check is empty and Ok(result) is returned.
Return ==
    /\ rpc = "loop"
    /\ to_check = <<>>
    /\ ret' = Ok(result)
    /\ rpc' = "returned"
    /\ UNCHANGED <<graphVars, to_check, added, result, compatVars, parseVars,
                 checkVars, scoreVars, bundleVars,
                 findVars, mainVars>>

NextResolve == Begin \/ Check \/ Return

SpecResolve == InitResolve /\ [][NextResolve]_vars

\* resolve_packages runs on: a step that can be taken is taken.
SpecResolveLive == SpecResolve /\ WF_vars(NextResolve)

(***************************************************************************)
(* check::run (check.rs 6-36): the licenses of the packages of one root    *)
(* are tested against the license of the root.                             *)
(*                                                                         *)
(* A package is a record [id, license]: license is what package.license()  *)
(* returns.  main.rs 49-51 passes the result of resolve_packages for the   *)
(* one root: packages with distinct ids, the root first.                   *)
(***************************************************************************)
CheckLicenses ==
    { Lic("MIT"), Lic("Apache_2_0"), Lic("GPL_3_0"), Lic("LGPL_2_0"),
      Custom(<<"Foo">>), Unspecified }

\* The sequences of distinct ids.
DistinctIdSeqs ==
    { q \in UNION { [1..n -> IdSet] : n \in 1..Len(PkgIds) } :
        \A i, j \in 1..Len(q) : i # j => q[i] # q[j] }

InitCheck ==
    /\ \E q \in DistinctIdSeqs : \E lic \in [IdSet -> CheckLicenses] :
          /\ check_packages = [i \in 1..Len(q) |-> [id |-> q[i], license |-> lic[q[i]]]]
          /\ check_root = [id |-> q[1], license |-> lic[q[1]]]
    /\ cursor = 0
    /\ fail = 0
    /\ log = <<>>
    /\ check_ret = NoReturn
    /\ kpc = "loop"
    /\ CompatIdle
    /\ ParseIdle
    /\ ResolveIdle
    /\ ScoreIdle
    /\ BundleIdle
    /\ FindIdle
    /\ MainIdle

\* No package is taken for the root.
IsRootNever(package) == FALSE

\* check.rs 11: package.id == root.id
IsRoot(package) == package.id = check_root.id

\* check.rs 10-29: one turn of the for loop.
Visit ==
    /\ kpc = "loop"
    /\ cursor < Len(check_packages)
    /\ cursor' = cursor + 1
    /\ LET package == check_packages[cursor + 1]
           included == can_include(check_root.license, package.license)
       IN  IF IsRoot(package)
           THEN UNCHANGED <<fail, log>>
           ELSE IF included = No
                THEN /\ log' = Append(log, [level |-> "error", id |-> package.id])
                     /\ fail' = fail + 1
                ELSE IF included = Unknown
                     THEN /\ log' = Append(log, [level |-> "warn", id |-> package.id])
                          /\ fail' = fail
                     ELSE UNCHANGED <<fail, log>>
    /\ UNCHANGED <<check_root, check_packages, check_ret, kpc>>
    /\ UNCHANGED <<compatVars, parseVars, resolveVars, scoreVars, bundleVars,
                 findVars, mainVars>>

\* check.rs 31-35: the loop is over and the counter decides.
Finish ==
    /\ kpc = "loop"
    /\ cursor = Len(check_packages)
    /\ check_ret' = IF fail > 0 THEN Err("Incompatible license", "") ELSE Ok(<<>>)
    /\ kpc' = "returned"
    /\ UNCHANGED <<check_root, check_packages, cursor, fail, log>>
    /\ UNCHANGED <<compatVars, parseVars, resolveVars, scoreVars, bundleVars,
                 findVars, mainVars>>

NextCheck == Visit \/ Finish

SpecCheck == InitCheck /\ [][NextCheck]_vars

(***************************************************************************)
(* check_against_template (discovery.rs 29-89): a text is scored against   *)
(* the template of a license.                                              *)
(*                                                                         *)
(* A text is a sequence of atoms: the words "the", "The" and "software"    *)
(* (runs of \w characters), one space " " and one full stop ".".  Word     *)
(* atoms that touch form one longer run of \w characters, hence one word.  *)
(* A word is the sequence of its atoms; a frequency map is a function from *)
(* the words it holds to their counts.                                     *)
(***************************************************************************)
TextAtoms == {"the", "The", "software", " ", "."}

\* The atoms the regex \w+ matches (discovery.rs 30).
IsWordAtom(a) == a \notin {" ", "."}

RECURSIVE FindWords(_, _, _)

\* discovery.rs 30: Regex::new(r"\w+").find_iter(text): the maximal runs of
\* word atoms of text from position i on, cur being the run in progress.
FindWords(t, i, cur) ==
    LET done == IF cur = <<>> THEN <<>> ELSE <<cur>>
    IN  IF i > Len(t) THEN done
        ELSE IF IsWordAtom(t[i]) THEN FindWords(t, i + 1, Append(cur, t[i]))
        ELSE done \o FindWords(t, i + 1, <<>>)

\* discovery.rs 32: word.as_str().to_lowercase()
to_lowercase(word) == [k \in 1..Len(word) |-> IF word[k] = "The" THEN "the" ELSE word[k]]

EmptyFreq == [w \in {} |-> 0]

RECURSIVE AddWords(_, _, _)

\* discovery.rs 30-34: the count of each word found is raised by one.
AddWords(freq, words, i) ==
    IF i > Len(words) THEN freq
    ELSE LET w == to_lowercase(words[i])
         IN  AddWords(IF w \in DOMAIN freq
                      THEN [freq EXCEPT ![w] = @ + 1]
                      ELSE freq @@ (w :> 1),
                      words, i + 1)

\* discovery.rs 29-35
add_frequencies(freq, t) == AddWords(freq, FindWords(t, 1, <<>>), 1)

\* discovery.rs 37-41
calculate_frequency(t) == add_frequencies(EmptyFreq, t)

RECURSIVE SumOver(_, _)

\* The sum of f over the words of S.
SumOver(f, S) ==
    IF S = {} THEN 0
    ELSE LET w == CHOOSE x \in S : TRUE
         IN  f[w] + SumOver(f, S \ {w})

\* The first loop of compare alone: the words of the text that the template
\* does not hold are not counted.
compareTemplateWords(text_freq, template_freq) ==
    LET diff == [w \in DOMAIN template_freq |->
                    LET text_count == IF w \in DOMAIN text_freq THEN text_freq[w] ELSE 0
                        d == text_count - template_freq[w]
                    IN  IF d < 0 THEN 0 - d ELSE d]
    IN  SumOver(diff, DOMAIN template_freq)

\* discovery.rs 43-57: the counts are u32 and the sums far below 2^32 here.
compare(text_freq, template_freq) ==
    LET diff == [w \in DOMAIN template_freq |->
                    LET text_count == IF w \in DOMAIN text_freq THEN text_freq[w] ELSE 0
                        d == text_count - template_freq[w]
                    IN  IF d < 0 THEN 0 - d ELSE d]
    IN  SumOver(diff, DOMAIN template_freq)
        + SumOver(text_freq, DOMAIN text_freq \ DOMAIN template_freq)

(***************************************************************************)
(* f32.  A finite positive f32 is [kind |-> "num", m, e], the value        *)
(* m * 2^(-e) with a 24 bit significand 2^23 <= m < 2^24; zero has m = 0.  *)
(* The counts converted are below 2^24, so `as f32` is exact, and the      *)
(* quotients are within the normal range.                                  *)
(***************************************************************************)
TwoTo23 == 8388608

TwoTo24 == 16777216

\* discovery.rs 11: 0.10 as f32 is 0x3DCCCCCD = 13421773 * 2^-27
HIGH_CONFIDENCE_LIMIT == [kind |-> "num", m |-> 13421773, e |-> 27]

\* discovery.rs 12: 0.15 as f32 is 0x3E19999A = 10066330 * 2^-26
LOW_CONFIDENCE_LIMIT == [kind |-> "num", m |-> 10066330, e |-> 26]

RECURSIVE Scale(_, _, _)

\* n = a * 2^e with 2^23 <= n / b < 2^24, for a / b below 2^24.
Scale(n, b, e) ==
    IF 2 * n < b * TwoTo24 THEN Scale(2 * n, b, e + 1) ELSE [n |-> n, e |-> e]

\* discovery.rs 79: (errors as f32) / (total as f32): the quotient rounded to
\* the nearest significand of 24 bits, a tie to the even one (IEEE 754).
F32Div(a, b) ==
    IF b = 0 THEN [kind |-> IF a = 0 THEN "nan" ELSE "inf", m |-> 0, e |-> 0]
    ELSE IF a = 0 THEN [kind |-> "num", m |-> 0, e |-> 0]
    ELSE LET s == Scale(a, b, 0)
             q == s.n \div b
             r == s.n % b
             up == 2 * r > b \/ (2 * r = b /\ q % 2 = 1)
             m == IF up THEN q + 1 ELSE q
         IN  IF m = TwoTo24
             THEN [kind |-> "num", m |-> TwoTo23, e |-> s.e - 1]
             ELSE [kind |-> "num", m |-> m, e |-> s.e]

\* <= in place of <.
F32LessOrEqual(x, y) ==
    /\ x.kind = "num"
    /\ y.kind = "num"
    /\ IF x.m = 0 THEN TRUE
       ELSE IF y.m = 0 THEN FALSE
       ELSE x.e > y.e \/ (x.e = y.e /\ x.m <= y.m)

\* discovery.rs 81, 83: the < of f32, false for a NaN and for +inf on the
\* left.
F32Less(x, y) ==
    /\ x.kind = "num"
    /\ y.kind = "num"
    /\ IF x.m = 0 THEN y.m > 0
       ELSE IF y.m = 0 THEN FALSE
       ELSE x.e > y.e \/ (x.e = y.e /\ x.m < y.m)

\* license.rs 158-174: the licenses template() has a text for.
TemplateTags ==
    { "Unlicense", "MIT", "Apache_2_0", "Apache_2_0_WITH_LLVM_exception",
      "BSD_0_Clause", "BSD_3_Clause", "GPL_2_0Plus", "GPL_3_0Plus",
      "LGPL_2_1Plus", "LGPL_3_0Plus", "Zlib" }

\* license.rs 158-174: License::template, NoString for None.
template(l) == IF l.tag \in TemplateTags THEN templates[l.tag] ELSE NoString

\* Option<HashMap>: the map of a template, or none.
NoFreq == [found |-> FALSE, freq |-> EmptyFreq]

SomeFreq(f) == [found |-> TRUE, freq |-> f]

RECURSIVE PoolTemplates(_, _, _)

\* discovery.rs 62-71: the templates of the members are added up; none as
\* soon as a member has no template.
PoolTemplates(licenses, i, template_freq) ==
    IF i > Len(licenses) THEN SomeFreq(template_freq)
    ELSE IF template(licenses[i]) = NoString THEN NoFreq
    ELSE PoolTemplates(licenses, i + 1,
                       add_frequencies(template_freq, template(licenses[i])))

\* discovery.rs 62-76: the frequency map of the template, none when
\* NoTemplate is returned.
TemplateFreq(l) ==
    IF l.tag = "Multiple" THEN PoolTemplates(l.arg, 1, EmptyFreq)
    ELSE IF template(l) # NoString THEN SomeFreq(calculate_frequency(template(l)))
    ELSE NoFreq

\* discovery.rs 81-87
Tier(score) ==
    IF F32Less(score, HIGH_CONFIDENCE_LIMIT) THEN "Confident"
    ELSE IF F32Less(score, LOW_CONFIDENCE_LIMIT) THEN "SemiConfident"
    ELSE "Unsure"

MaxTextLen == 3

MaxCount == 20

MaxOther == 2

RECURSIVE Repeat(_, _)

\* The word n times, a space after each.
Repeat(w, n) == IF n = 0 THEN <<>> ELSE <<w, " ">> \o Repeat(w, n - 1)

\* Short texts of any atoms, and longer ones that hold one word up to
\* MaxCount times and another up to MaxOther times.
Texts ==
    UNION { [1..n -> TextAtoms] : n \in 0..MaxTextLen }
    \cup { Repeat("the", i) \o Repeat("software", j) : i \in 0..MaxCount, j \in 0..MaxOther }

\* The texts of the templates (src/licenses/*, not empty): a word up to
\* MaxCount times, and another at most once.
TemplateTexts ==
    { Repeat("the", i) \o Repeat("software", j) : i \in 1..MaxCount, j \in 0..1 }

ScoredLicenses == { Lic("MIT"), Lic("Zlib"), Lic("X11"), Custom(<<"Foo">>) }

InitScore ==
    /\ text \in Texts
    /\ scored \in ScoredLicenses
    /\ \E t \in TemplateTexts :
          /\ scored.tag \notin TemplateTags => t = Repeat("the", 1)
          /\ templates = [g \in TemplateTags |->
                            IF g = "MIT" THEN t ELSE <<"the", " ", "software", ".">>]
    /\ errors = 0
    /\ total = 0
    /\ confidence = "unset"
    /\ spc = "call"
    /\ CompatIdle
    /\ ParseIdle
    /\ ResolveIdle
    /\ CheckIdle
    /\ BundleIdle
    /\ FindIdle
    /\ MainIdle

\* discovery.rs 59-89: check_against_template(text, license)
CheckAgainstTemplate ==
    /\ spc = "call"
    /\ LET text_freq == calculate_frequency(text)
           found_freq == TemplateFreq(scored)
           template_freq == found_freq.freq
       IN  IF ~found_freq.found
           THEN /\ confidence' = "NoTemplate"
                /\ UNCHANGED <<errors, total>>
           ELSE /\ total' = SumOver(template_freq, DOMAIN template_freq)
                /\ errors' = compare(text_freq, template_freq)
                /\ confidence' = Tier(F32Div(errors', total'))
    /\ spc' = "returned"
    /\ UNCHANGED <<text, scored, templates>>
    /\ UNCHANGED <<compatVars, parseVars, resolveVars, checkVars, bundleVars,
                 findVars, mainVars>>

NextScore == CheckAgainstTemplate

SpecScore == InitScore /\ [][NextScore]_vars

(***************************************************************************)
(* bundle::run (bundle.rs 135-251) with get_lich (329-351) and choose      *)
(* (371-421).                                                              *)
(*                                                                         *)
(* A package is a record [name, license].  A LicenseText is a record       *)
(* [path, confidence]: path is the position of the file in the order of    *)
(* discovery, and stands for the file's text too.  What better_find        *)
(* returns for a package and a license is read from the file system when   *)
(* it is called: Ok with a list of LicenseText, or the error of read_dir.  *)
(***************************************************************************)
MaxTexts == 3

LicenseText(i, c) == [path |-> i, confidence |-> c]

\* discovery.rs 59-89: the tiers a text can get for this license.
TiersFor(l) ==
    IF l.tag = "Multiple"
    THEN IF \A k \in 1..Len(l.arg) : l.arg[k].tag \in TemplateTags
         THEN {"Confident", "SemiConfident", "Unsure"}
         ELSE {"NoTemplate"}
    ELSE IF l.tag \in TemplateTags THEN {"Confident", "SemiConfident", "Unsure"}
    ELSE {"NoTemplate"}

ReadDirError == [kind |-> "Err", value |-> <<"read_dir", "">>]

\* discovery.rs 91-153: what better_find can return for this license.
BetterFindResults(l) ==
    { Ok([i \in 1..n |-> LicenseText(i, c[i])]) :
        <<n, c>> \in UNION { {n} \X [1..n -> TiersFor(l)] : n \in 0..MaxTexts } }
    \cup {ReadDirError}

WithConfidence(texts, c) == SelectSeq(texts, LAMBDA t : t.confidence = c)

Single(t) == [kind |-> "Single", texts |-> <<t>>]

Several(ts) == [kind |-> "Multiple", texts |-> ts]

None == [kind |-> "None", texts |-> <<>>]

\* The first text is taken, whatever its tier.
chooseFirst(texts) ==
    IF Len(texts) = 0 THEN [best |-> None, info |-> "MissingLicenseFile"]
    ELSE [best |-> Single(texts[1]), info |-> texts[1].confidence]

\* bundle.rs 371-421: choose; the package and the license it is given too
\* are not used.
choose(texts) ==
    LET confident == WithConfidence(texts, "Confident")
        semi_confident == WithConfidence(texts, "SemiConfident")
        unsure == WithConfidence(texts, "Unsure")
        no_template == WithConfidence(texts, "NoTemplate")
    IN  IF Len(confident) = 1
        THEN [best |-> Single(confident[1]), info |-> "Confident"]
        ELSE IF Len(confident) > 1
        THEN [best |-> Several(confident), info |-> "Confident"]
        ELSE IF Len(semi_confident) = 1
        THEN [best |-> Single(semi_confident[1]), info |-> "SemiConfident"]
        ELSE IF Len(semi_confident) > 1
        THEN [best |-> Several(semi_confident), info |-> "SemiConfident"]
        ELSE IF Len(unsure) = 1
        THEN [best |-> Single(unsure[1]), info |-> "Unsure"]
        ELSE IF Len(unsure) > 1
        THEN [best |-> Several(unsure), info |-> "Unsure"]
        ELSE IF Len(no_template) = 1
        THEN [best |-> Single(no_template[1]), info |-> "NoTemplate"]
        ELSE IF Len(no_template) > 1
        THEN [best |-> Several(no_template), info |-> "NoTemplate"]
        ELSE [best |-> None, info |-> "MissingLicenseFile"]

\* bundle.rs 94-104: the text inline_writer writes for a BestChoice: the one
\* of Single, the first of Multiple, none (<<>>) for None.
Written(best) == IF best.kind = "None" THEN <<>> ELSE <<best.texts[1]>>

RECURSIVE CallsMade(_)

\* The results of the calls of better_find that get_lich makes for these
\* licenses, one after the other: the first error is the last call.
CallsMade(licenses) ==
    IF licenses = <<>> THEN {<<>>}
    ELSE {<<ReadDirError>>}
         \cup { <<r>> \o rest : r \in BetterFindResults(Head(licenses)) \ {ReadDirError},
                                rest \in CallsMade(Tail(licenses)) }

\* bundle.rs 329-351: get_lich, outcomes being what better_find returned for
\* the license, or for the members of a Multiple up to the first error.
get_lich(package, outcomes) ==
    LET l == package.license
    IN  IF l = Unspecified
        THEN Ok([package |-> package, license |-> l,
                 texts |-> [kind |-> "Single",
                            choices |-> <<[best |-> None,
                                           info |-> "UnspecifiedLicenseInPackage"]>>]])
        ELSE IF \E k \in 1..Len(outcomes) : outcomes[k].kind = "Err"
        THEN ReadDirError
        ELSE Ok([package |-> package, license |-> l,
                 texts |-> [kind |-> IF l.tag = "Multiple" THEN "Multiple" ELSE "Single",
                            choices |-> [k \in 1..Len(outcomes) |->
                                            choose(outcomes[k].value)]]])

\* better_find is called once with the license of the package as it is.
SearchedWhole(l) == IF l = Unspecified THEN <<>> ELSE <<l>>

\* The licenses better_find is called with for a package.
Searched(l) ==
    IF l = Unspecified THEN <<>>
    ELSE IF l.tag = "Multiple" THEN l.arg
    ELSE <<l>>

BundleNames == {"a", "b"}

BundleLicenses ==
    { Unspecified, Lic("MIT"), Lic("X11"),
      Multiple(<<Lic("MIT"), Lic("X11")>>) }

\* One package, or two of different names in any order, at most one of them
\* with several licenses.
BundleInputs ==
    { q \in UNION { [1..n -> [name : BundleNames, license : BundleLicenses]] : n \in 1..2 } :
        \A i, j \in 1..Len(q) :
            i # j => /\ q[i].name # q[j].name
                     /\ "Multiple" \in {q[i].license.tag, q[j].license.tag}
                        => q[i].license.tag # q[j].license.tag }

InitBundle ==
    /\ bundle_packages \in BundleInputs
    /\ variant \in {"Inline", "NameOnly"}
    /\ found = <<>>
    /\ liches = <<>>
    /\ context = NoContext
    /\ bundle_ret = NoReturn
    /\ bpc = "entry"
    /\ CompatIdle
    /\ ParseIdle
    /\ ResolveIdle
    /\ CheckIdle
    /\ ScoreIdle
    /\ FindIdle
    /\ MainIdle

NamePos(n) == CHOOSE i \in 1..Len(PkgIds) : PkgIds[i] = n

RECURSIVE InsertByName(_, _)

\* p is put behind the packages whose name is not greater (a stable sort).
InsertByName(sorted, p) ==
    IF sorted = <<>> THEN <<p>>
    ELSE IF NamePos(p.name) < NamePos(Head(sorted).name) THEN <<p>> \o sorted
    ELSE <<Head(sorted)>> \o InsertByName(Tail(sorted), p)

RECURSIVE SortByName(_, _)

\* bundle.rs 136-140: packages.sort_by_key(|p| (&p.name, &p.version))
SortByName(ps, i) ==
    IF i = 0 THEN <<>> ELSE InsertByName(SortByName(ps, i - 1), ps[i])

\* bundle.rs 136-166: the packages are sorted and the Context is built.
BeginRun ==
    /\ bpc = "entry"
    /\ bundle_packages' = SortByName(bundle_packages, Len(bundle_packages))
    /\ context' = [missing_license |-> FALSE, low_quality_license |-> FALSE,
                   issues |-> <<>>]
    /\ bpc' = "liches"
    /\ UNCHANGED <<variant, found, liches, bundle_ret>>
    /\ UNCHANGED <<compatVars, parseVars, resolveVars, checkVars, scoreVars,
                 findVars, mainVars>>

\* bundle.rs 168: get_lich of the next package; its Result is collected as it
\* is, an Err too.
GetLich ==
    /\ bpc = "liches"
    /\ Len(liches) < Len(bundle_packages)
    /\ LET package == bundle_packages[Len(liches) + 1]
           licenses == Searched(package.license)
       IN  \E outcomes \in CallsMade(licenses) :
              /\ found' = Append(found, outcomes)
              /\ liches' = Append(liches, get_lich(package, outcomes))
    /\ UNCHANGED <<bundle_packages, variant, context, bundle_ret, bpc>>
    /\ UNCHANGED <<compatVars, parseVars, resolveVars, checkVars, scoreVars,
                 findVars, mainVars>>

\* bundle.rs 169-250: every package was looked at; the variant is matched
\* (nothing is written for Inline, the others are unimplemented!()), the
\* issues are logged and the two flags decide.
FinishRun ==
    /\ bpc = "liches"
    /\ Len(liches) = Len(bundle_packages)
    /\ bundle_ret' = IF variant # "Inline" THEN [kind |-> "Panic", value |-> <<>>]
                     ELSE IF context.missing_license \/ context.low_quality_license
                     THEN Err("Generating bundle finished with error(s)", "")
                     ELSE Ok(<<>>)
    /\ bpc' = "returned"
    /\ UNCHANGED <<bundle_packages, variant, found, liches, context>>
    /\ UNCHANGED <<compatVars, parseVars, resolveVars, checkVars, scoreVars,
                 findVars, mainVars>>

NextBundle == BeginRun \/ GetLich \/ FinishRun

SpecBundle == InitBundle /\ [][NextBundle]_vars

(***************************************************************************)
(* better_find (discovery.rs 91-153): the directory of a package is        *)
(* searched for the texts of a license.                                    *)
(*                                                                         *)
(* A file name is a sequence of characters.  A directory is the sequence   *)
(* of its entries in the order read_dir yields them; an entry is a record  *)
(* [name, content], content being the tier check_against_template gives    *)
(* the text of the file, or "unreadable" when read_to_string fails, or     *)
(* "entry_error" when the entry itself is an error.                        *)
(***************************************************************************)
UpperCase == <<"A", "B", "C", "D", "E", "F", "G", "H", "I", "J", "K", "L", "M",
               "N", "O", "P", "Q", "R", "S", "T", "U", "V", "W", "X", "Y", "Z">>

LowerCase == <<"a", "b", "c", "d", "e", "f", "g", "h", "i", "j", "k", "l", "m",
               "n", "o", "p", "q", "r", "s", "t", "u", "v", "w", "x", "y", "z">>

Digits == {"0", "1", "2", "3", "4", "5", "6", "7", "8", "9"}

\* str::to_lowercase and str::to_uppercase, character by character.
Recase(str, from, to) ==
    [k \in 1..Len(str) |->
        IF \E n \in 1..Len(from) : from[n] = str[k]
        THEN to[CHOOSE n \in 1..Len(from) : from[n] = str[k]]
        ELSE str[k]]

RECURSIVE Slug(_, _, _)

\* slug::slugify (discovery.rs 101, license.rs 270): letters are lowercased
\* and digits kept, every run of other characters becomes one "-", none at
\* the start and none at the end.
Slug(str, i, prev_is_dash) ==
    IF i > Len(str) THEN <<>>
    ELSE LET c == Recase(<<str[i]>>, UpperCase, LowerCase)[1]
         IN  IF c \in Elements(LowerCase) \cup Digits
             THEN <<c>> \o Slug(str, i + 1, FALSE)
             ELSE IF prev_is_dash THEN Slug(str, i + 1, TRUE)
             ELSE <<"-">> \o Slug(str, i + 1, TRUE)

slugify(str) ==
    LET g == Slug(str, 1, TRUE)
    IN  IF g # <<>> /\ g[Len(g)] = "-" THEN SubSeq(g, 1, Len(g) - 1) ELSE g

\* str::contains
Contains(str, pat) ==
    \E i \in 0..(Len(str) - Len(pat)) : SubSeq(str, i + 1, i + Len(pat)) = pat

\* The characters of the words that license.rs 223-263 displays.
Spell(atom) ==
    CASE atom = "MIT" -> <<"M", "I", "T">>
      [] atom = "Apache-2.0" -> <<"A", "p", "a", "c", "h", "e", "-", "2", ".", "0">>
      [] atom = "Foo" -> <<"F", "o", "o">>

RECURSIVE SpellAll(_)

SpellAll(str) == IF str = <<>> THEN <<>> ELSE Spell(Head(str)) \o SpellAll(Tail(str))

\* license.rs 267-279: synonyms, the longest first (the sort is stable and
\* the four of Apache-2.0 are written in that order already).
synonyms(l) ==
    LET own == Recase(slugify(SpellAll(fmt(l))), UpperCase, LowerCase)
    IN  IF l.tag = "Apache_2_0"
        THEN << own, <<"a", "p", "a", "c", "h", "e", "-", "2">>, <<"a", "p", "a", "c", "h", "e", "2">>, <<"a", "p", "a", "c", "h", "e">> >>
        ELSE << own >>

\* A synonym anywhere in the name is enough.
name_matchesAnywhere(name, l) ==
    LET slug == Recase(slugify(name), UpperCase, LowerCase)
        lics == IF l.tag = "Custom"
                THEN << Recase(slugify(SpellAll(l.arg)), UpperCase, LowerCase) >>
                ELSE synonyms(l)
    IN  \E k \in 1..Len(lics) : slug = lics[k] \/ Contains(slug, lics[k])

\* discovery.rs 100-118: name_matches
name_matches(name, l) ==
    LET slug == Recase(slugify(name), UpperCase, LowerCase)
        lics == IF l.tag = "Custom"
                THEN << Recase(slugify(SpellAll(l.arg)), UpperCase, LowerCase) >>
                ELSE synonyms(l)
    IN  \E k \in 1..Len(lics) :
            \/ slug = lics[k]
            \/ Contains(slug, <<"l", "i", "c", "e", "n", "s", "e">>) /\ Contains(slug, lics[k])

\* discovery.rs 93-98: generic_license_name
generic_license_name(name) ==
    Recase(name, LowerCase, UpperCase)
        \in { <<"L", "I", "C", "E", "N", "S", "E">>, <<"L", "I", "C", "E", "N", "C", "E">>,
              <<"L", "I", "C", "E", "N", "S", "E", ".", "M", "D">>,
              <<"L", "I", "C", "E", "N", "S", "E", ".", "T", "X", "T">> }

\* The first generic file read is kept.
RetainFirst(old, t) == IF old.path = 0 THEN t ELSE old

\* discovery.rs 139-143: generic = Some(LicenseText { .. })
Retain(old, t) == t

\* The generic file is added whenever there is one.
FallsBackAlways(found_texts, gen) == gen.path # 0

\* discovery.rs 148: texts.is_empty() && generic.is_some()
FallsBack(found_texts, gen) == found_texts = <<>> /\ gen.path # 0

MaxEntries == 3

FileNames ==
    { <<"M", "I", "T">>,
      <<"L", "I", "C", "E", "N", "S", "E", "-", "M", "I", "T">>,
      <<"M", "I", "T", ".", "t", "x", "t">>,
      <<"L", "I", "C", "E", "N", "S", "E", "-", "A", "P", "A", "C", "H", "E">>,
      <<"L", "I", "C", "E", "N", "S", "E">>,
      <<"l", "i", "c", "e", "n", "c", "e">>,
      <<"L", "I", "C", "E", "N", "S", "E", ".", "m", "d">> }

FindLicenses == { Lic("MIT"), Lic("Apache_2_0") }

EntryError == [name |-> <<>>, content |-> "entry_error"]

\* fs::read_dir itself fails.
Unlistable == <<[name |-> <<>>, content |-> "read_dir_error"]>>

\* The directories: files of different names in any order, each readable
\* (with the tier of its text) or not, and entries that are errors.
Directories ==
    { d \in UNION { [1..n -> [name : FileNames,
                              content : {"unreadable", "Confident", "Unsure"}]
                             \cup {EntryError}] : n \in 0..MaxEntries } :
        \A i, j \in 1..Len(d) :
            (i # j /\ d[i] # EntryError /\ d[j] # EntryError) => d[i].name # d[j].name }
    \cup {Unlistable}

InitFind ==
    /\ find_license \in FindLicenses
    /\ dir \in Directories
    /\ entry_pos = 0
    /\ find_generic = NoText
    /\ find_texts = <<>>
    /\ find_ret = NoReturn
    /\ fpc = "entry"
    /\ CompatIdle
    /\ ParseIdle
    /\ ResolveIdle
    /\ CheckIdle
    /\ ScoreIdle
    /\ BundleIdle
    /\ MainIdle

\* discovery.rs 120-122: the locals are set up and read_dir is called.
ReadDir ==
    /\ fpc = "entry"
    /\ find_generic' = NoText
    /\ find_texts' = <<>>
    /\ IF dir = Unlistable
       THEN fpc' = "returned" /\ find_ret' = ReadDirError
       ELSE fpc' = "loop" /\ find_ret' = find_ret
    /\ UNCHANGED <<find_license, dir, entry_pos>>
    /\ UNCHANGED <<compatVars, parseVars, resolveVars, checkVars, scoreVars,
                   bundleVars, mainVars>>

\* discovery.rs 122-145: one turn of the for loop over the entries.
Entry ==
    /\ fpc = "loop"
    /\ entry_pos < Len(dir)
    /\ entry_pos' = entry_pos + 1
    /\ LET e == dir[entry_pos + 1]
           t == LicenseText(entry_pos + 1, e.content)
           readable == e.content \notin {"unreadable", "entry_error"}
       IN  IF e = EntryError
           THEN /\ find_ret' = ReadDirError
                /\ fpc' = "returned"
                /\ UNCHANGED <<find_texts, find_generic>>
           ELSE /\ UNCHANGED <<find_ret, fpc>>
                /\ IF name_matches(e.name, find_license)
                   THEN /\ find_texts' = IF readable THEN Append(find_texts, t)
                                         ELSE find_texts
                        /\ find_generic' = find_generic
                   ELSE IF generic_license_name(e.name)
                   THEN /\ find_generic' = IF readable THEN Retain(find_generic, t)
                                           ELSE find_generic
                        /\ find_texts' = find_texts
                   ELSE UNCHANGED <<find_texts, find_generic>>
    /\ UNCHANGED <<find_license, dir>>
    /\ UNCHANGED <<compatVars, parseVars, resolveVars, checkVars, scoreVars,
                   bundleVars, mainVars>>

\* discovery.rs 148-152: the generic file stands in when no text was found.
ReturnTexts ==
    /\ fpc = "loop"
    /\ entry_pos = Len(dir)
    /\ find_texts' = IF FallsBack(find_texts, find_generic)
                     THEN Append(find_texts, find_generic)
                     ELSE find_texts
    /\ find_ret' = Ok(find_texts')
    /\ fpc' = "returned"
    /\ UNCHANGED <<find_license, dir, entry_pos, find_generic>>
    /\ UNCHANGED <<compatVars, parseVars, resolveVars, checkVars, scoreVars,
                   bundleVars, mainVars>>

NextFind == ReadDir \/ Entry \/ ReturnTexts

SpecFind == InitFind /\ [][NextFind]_vars

(***************************************************************************)
(* main.rs 48-59: check mode.  Every root is resolved on its own and        *)
(* checked; the resolve_packages and check::run it calls are the actions    *)
(* above.                                                                   *)
(***************************************************************************)
\* The most dependency edges in the graph of a check-mode run.
MaxEdges == 2

MainKindLists == { <<"Normal">>, <<"Build">> }

MainGraphs(ids) ==
    UNION { { ResolveOf(ids, edges, kinds) : kinds \in [edges -> MainKindLists] }
            : edges \in { E \in SUBSET EdgePairs : Cardinality(E) <= MaxEdges } }

MainLicenses == { Lic("MIT"), Lic("GPL_3_0") }

\* main.rs 45-50: cargo metadata was read and resolve_roots gave the roots,
\* workspace members that cargo reports.
InitMain ==
    /\ packages = PkgIds
    /\ resolve \in MainGraphs(IdSet) \cup MainGraphs(IdSet \ {"c"}) \cup {NoResolve}
    /\ metadata_licenses \in [IdSet -> MainLicenses]
    /\ main_roots \in { q \in DistinctIdSeqs : Len(q) <= MaxRoots }
    /\ root_pos = 0
    /\ main_error = Ok(<<>>)
    /\ checks = <<>>
    /\ main_ret = NoReturn
    /\ mpc = "loop"
    /\ roots = <<>>
    /\ to_check = <<>>
    /\ added = {}
    /\ result = <<>>
    /\ ret = NoReturn
    /\ rpc = "idle"
    /\ CompatIdle
    /\ ParseIdle
    /\ CheckIdle
    /\ ScoreIdle
    /\ BundleIdle
    /\ FindIdle

\* The package that cargo reports for an id.
PackageOf(id) == [id |-> id, license |-> metadata_licenses[id]]

\* The result of the last check stands, a passing one too.
RecordLast(old, r) == r

\* main.rs 54-56: if let Err(err) = check::run(..) { error = Err(err); }
Record(old, r) == IF r.kind = "Err" THEN r ELSE old

\* main.rs 51-53: the next root is taken and resolve_packages is called
\* with it alone.
CallResolve ==
    /\ mpc = "loop"
    /\ root_pos < Len(main_roots)
    /\ roots' = <<main_roots[root_pos + 1]>>
    /\ to_check' = <<>>
    /\ added' = {}
    /\ result' = <<>>
    /\ ret' = NoReturn
    /\ rpc' = "entry"
    /\ mpc' = "resolving"
    /\ UNCHANGED <<packages, resolve>>
    /\ UNCHANGED <<metadata_licenses, main_roots, root_pos, main_error, checks, main_ret>>
    /\ UNCHANGED <<compatVars, parseVars, checkVars, scoreVars, bundleVars, findVars>>

\* main.rs 53: resolve_packages(..)? returned an Err, which inner returns.
ResolveFailed ==
    /\ mpc = "resolving"
    /\ rpc = "returned"
    /\ ret.kind = "Err"
    /\ main_ret' = ret
    /\ mpc' = "returned"
    /\ UNCHANGED <<metadata_licenses, main_roots, root_pos, main_error, checks>>
    /\ UNCHANGED <<compatVars, parseVars, resolveVars, checkVars, scoreVars,
                   bundleVars, findVars>>

\* main.rs 54: check::run is called with the root and the packages resolved.
CallCheck ==
    /\ mpc = "resolving"
    /\ rpc = "returned"
    /\ ret.kind = "Ok"
    /\ check_root' = PackageOf(main_roots[root_pos + 1])
    /\ check_packages' = [i \in 1..Len(ret.value) |-> PackageOf(ret.value[i])]
    /\ cursor' = 0
    /\ fail' = 0
    /\ log' = <<>>
    /\ check_ret' = NoReturn
    /\ kpc' = "loop"
    /\ mpc' = "checking"
    /\ UNCHANGED <<metadata_licenses, main_roots, root_pos, main_error, checks, main_ret>>
    /\ UNCHANGED <<compatVars, parseVars, resolveVars, scoreVars, bundleVars, findVars>>

\* main.rs 54-57: check::run returned; an Err is kept and the loop goes on.
AfterCheck ==
    /\ mpc = "checking"
    /\ kpc = "returned"
    /\ main_error' = Record(main_error, check_ret)
    /\ checks' = Append(checks, [root |-> check_root, packages |-> check_packages,
                                 ret |-> check_ret])
    /\ root_pos' = root_pos + 1
    /\ mpc' = "loop"
    /\ UNCHANGED <<metadata_licenses, main_roots, main_ret>>
    /\ UNCHANGED <<compatVars, parseVars, resolveVars, checkVars, scoreVars,
                   bundleVars, findVars>>

\* main.rs 58: error? after the last root.
EndMain ==
    /\ mpc = "loop"
    /\ root_pos = Len(main_roots)
    /\ main_ret' = main_error
    /\ mpc' = "returned"
    /\ UNCHANGED <<metadata_licenses, main_roots, root_pos, main_error, checks>>
    /\ UNCHANGED <<compatVars, parseVars, resolveVars, checkVars, scoreVars,
                   bundleVars, findVars>>

NextMain ==
    \/ CallResolve
    \/ Begin
    \/ Check
    \/ Return
    \/ ResolveFailed
    \/ CallCheck
    \/ Visit
    \/ Finish
    \/ AfterCheck
    \/ EndMain

SpecMain == InitMain /\ [][NextMain]_vars

(***************************************************************************)
(* Claims about can_include, checked under SpecCompat.                     *)
(***************************************************************************)
Returned == cpc = "returned"

\* The results of the members of a Multiple, each evaluated on its own.
SelfResults == { can_include(consumer.arg[i], dependency) : i \in 1..Len(consumer.arg) }

OtherResults == { can_include(consumer, dependency.arg[i]) : i \in 1..Len(dependency.arg) }

\* C1: for a Multiple consumer and a dependency that is not Unspecified,
\* Custom or File, the result is No if any member yields No (wherever it
\* stands), otherwise Unknown if any member yields Unknown, otherwise Yes.
C1_AndFoldAnyOrder ==
    (/\ Returned
     /\ consumer.tag = "Multiple"
     /\ dependency.tag \notin {"Unspecified", "Custom", "File"})
    => answer = (IF No \in SelfResults THEN No
                 ELSE IF Unknown \in SelfResults THEN Unknown
                 ELSE Yes)

RECURSIVE Orders(_)

\* All orders of the sequence s.
Orders(s) ==
    IF s = <<>> THEN { <<>> }
    ELSE UNION { { <<s[i]>> \o r :
                     r \in Orders(SubSeq(s, 1, i - 1) \o SubSeq(s, i + 1, Len(s))) }
                 : i \in 1..Len(s) }

\* C2: for a single consumer (not Multiple, Custom or File) and a Multiple
\* dependency, the result is Yes if the consumer can include at least one
\* member, otherwise Unknown if at least one member yields Unknown, otherwise
\* No, and it is the same for every order of the members.
C2_OrFold ==
    (/\ Returned
     /\ consumer.tag \notin {"Multiple", "Custom", "File"}
     /\ dependency.tag = "Multiple")
    => /\ answer = (IF Yes \in OtherResults THEN Yes
                    ELSE IF Unknown \in OtherResults THEN Unknown
                    ELSE No)
       /\ \A ls \in Orders(dependency.arg) :
            can_include(consumer, Multiple(ls)) = answer

\* C2: a Yes found behind a member whose own result is Unknown.
C2_Witness ==
    /\ Returned
    /\ consumer.tag \in CanonicalTags
    /\ dependency.tag = "Multiple"
    /\ can_include(consumer, dependency.arg[1]) = Unknown
    /\ answer = Yes

\* C3: can_include(consumer, Unspecified) is No for every consumer: a
\* canonical identifier, Custom, File, Multiple or Unspecified itself.
C3_UnspecifiedDependency ==
    (Returned /\ dependency = Unspecified) => answer = No

\* C3: the rule wins over the Custom rule.
C3_Witness ==
    /\ Returned
    /\ dependency = Unspecified
    /\ consumer.tag = "Custom"
    /\ answer = No

\* C4: when the dependency is not Unspecified and the consumer or the
\* dependency is Custom or File, the result is Unknown, whatever the other
\* side is (a Multiple included).
C4_CustomOrFileUnknown ==
    (/\ Returned
     /\ dependency # Unspecified
     /\ \/ consumer.tag \in {"Custom", "File"}
        \/ dependency.tag \in {"Custom", "File"})
    => answer = Unknown

\* C4: a Multiple consumer whose first member alone would give No, against a
\* File dependency.
C4_Witness ==
    /\ Returned
    /\ consumer.tag = "Multiple"
    /\ consumer.arg[1] = Lic("MIT")
    /\ dependency.tag = "File"
    /\ answer = Unknown

C6_PermissiveIncludableByAll ==
    (/\ Returned
     /\ dependency.tag \in Permissive
     /\ consumer.tag \in CanonicalTags \cup {"Unspecified"})
    => answer = Yes

(***************************************************************************)
(* Claims about from_str and Display, checked under SpecParse.             *)
(***************************************************************************)
\* The string in input has been parsed into license.
Parsed == input # NoString /\ ppc \in {"to_string", "reparse", "redisplay", "done"}

SortedByVariant(ls) ==
    \A i, j \in 1..Len(ls) :
        i < j => VariantIndex(ls[i].tag) <= VariantIndex(ls[j].tag)

RECURSIVE Join(_, _)

\* The pieces with the separator sep between them.
Join(ps, sep) ==
    IF Len(ps) = 1 THEN ps[1]
    ELSE ps[1] \o sep \o Join(Tail(ps), sep)

\* The pieces a string lists, as from_str reads them.
TrimmedPieces(s) == LET ps == Pieces(Trim(s)) IN [i \in 1..Len(ps) |-> Trim(ps[i])]

\* The strings that list the pieces of s in some order, with either separator.
Relistings(s) ==
    { r \in UNION { { Join(ls, <<"/">>), Join(ls, <<" ", "OR", " ">>) } :
                    ls \in Orders(Pieces(Trim(s))) } :
        /\ ContainsSlash(Trim(r)) \/ ContainsOr(Trim(r))
        /\ TrimmedPieces(r) \in Orders(TrimmedPieces(s)) }

SortedMultipleOfPieces ==
    /\ license.tag = "Multiple"
    /\ SortedByVariant(license.arg)
    /\ LET ps == Pieces(Trim(input))
       IN  license.arg \in Orders([i \in 1..Len(ps) |-> from_str(ps[i])])
    /\ \A r \in Relistings(input) : from_str(r) = license

\* C7 as stated: parsing a string that contains '/' or " OR " yields a
\* Multiple whose members are the parsed pieces sorted by the enumeration
\* order of the identifiers, so that two strings listing the same pieces in
\* different orders parse to the same value.
C7_AnySeparatorGivesSortedMultiple ==
    (Parsed /\ (ContainsSlash(input) \/ ContainsOr(input)))
    => SortedMultipleOfPieces

\* C7 as amended: parsing a string that still contains '/' or " OR " once it
\* is trimmed yields a Multiple whose members are the parsed pieces sorted by
\* the enumeration order of the identifiers, so that two such strings listing
\* the same pieces in different orders parse to the same value.
C7_TrimmedSeparatorGivesSortedMultiple ==
    (Parsed /\ (ContainsSlash(Trim(input)) \/ ContainsOr(Trim(input))))
    => SortedMultipleOfPieces

\* C7: "Apache-2.0 OR MIT" parses to [MIT, Apache-2.0], neither the order of
\* the input nor the order of the spellings.
C7_Witness ==
    /\ Parsed
    /\ input = <<"Apache-2.0", " ", "OR", " ", "MIT">>
    /\ license = Multiple(<<Lic("MIT"), Lic("Apache_2_0")>>)

\* The historical aliases with their canonical spellings.
AliasSpelling ==
    << <<"LGPL-2.0", "LGPL-2.0-only">>, <<"LGPL-2.1", "LGPL-2.1-only">>,
       <<"LGPL-2.1+", "LGPL-2.1-or-later">>, <<"LGPL-3.0", "LGPL-3.0-only">>,
       <<"LGPL-3.0+", "LGPL-3.0-or-later">>, <<"GPL-2.0", "GPL-2.0-only">>,
       <<"GPL-2.0+", "GPL-2.0-or-later">>, <<"GPL-3.0", "GPL-3.0-only">>,
       <<"GPL-3.0+", "GPL-3.0-or-later">>, <<"AGPL-3.0", "AGPL-3.0-only">>,
       <<"AGPL-3.0+", "AGPL-3.0-or-later">> >>

\* C8: for every canonical identifier id, parse(display(id)) is id and
\* display(parse(display(id))) is display(id); every historical alias parses
\* to the identifier its canonical spelling parses to.
C8_RoundTripAndAliases ==
    /\ (ppc = "done" /\ input = NoString /\ license.tag \in CanonicalTags)
       => (reparsed = license /\ reshown = shown)
    /\ \A k \in 1..Len(AliasSpelling) :
         (Parsed /\ input = <<AliasSpelling[k][1]>>)
         => /\ license.tag \in CanonicalTags
            /\ license = from_str(<<AliasSpelling[k][2]>>)
            /\ fmt(license) = <<AliasSpelling[k][2]>>

\* C8: GPL-3.0-only displayed, parsed and displayed again.
C8_Witness ==
    /\ ppc = "done"
    /\ input = NoString
    /\ license = Lic("GPL_3_0")
    /\ shown = <<"GPL-3.0-only">>
    /\ reparsed = Lic("GPL_3_0")
    /\ reshown = <<"GPL-3.0-only">>

\* The string is empty or holds blanks only.
Blank(s) == \A i \in 1..Len(s) : s[i] = " "

\* C9 as stated: parsing a string that is empty, or empty once trimmed,
\* yields Unspecified.
C9_EmptyGivesUnspecified ==
    (Parsed /\ Blank(input)) => license = Unspecified

\* C9 as amended: parsing a string that is empty, or empty once trimmed,
\* yields Custom of the empty string; parsing yields Unspecified for no
\* string.
C9_EmptyGivesEmptyCustom ==
    /\ (Parsed /\ Blank(input)) => license = Custom(<<>>)
    /\ Parsed => license # Unspecified

\* C9: a string of blanks, parsed.
C9_Witness ==
    /\ Parsed
    /\ input = <<" ", " ">>
    /\ license = Custom(<<>>)

(***************************************************************************)
(* Claims about resolve_packages, checked under SpecResolve.               *)
(***************************************************************************)
ReturnedOk == rpc = "returned" /\ ret.kind = "Ok"

\* The kinds cargo lists on the edge from x to y in the graph; none when
\* there is no such edge.
EdgeKinds(x, y) ==
    UNION { { resolve.nodes[i].deps[j].dep_kinds[k] :
                k \in 1..Len(resolve.nodes[i].deps[j].dep_kinds) } :
            <<i, j>> \in { <<i, j>> \in (1..Len(resolve.nodes)) \X (1..Len(PkgIds)) :
                            /\ resolve.nodes[i].id = x
                            /\ j <= Len(resolve.nodes[i].deps)
                            /\ resolve.nodes[i].deps[j].pkg = y } }

RECURSIVE NormalClosure(_)

\* The ids reachable from S along edges that carry a Normal kind.
NormalClosure(S) ==
    LET more == S \cup { y \in IdSet : \E x \in S : "Normal" \in EdgeKinds(x, y) }
    IN  IF more = S THEN S ELSE NormalClosure(more)

\* C10: resolve_packages returns exactly the packages reachable from the
\* roots (roots included) along edges that carry a Normal kind, each once: a
\* package reachable only through Development or Build edges is excluded, a
\* dependency whose edge carries both Development and Normal is included.
C10_NormalReachableOnce ==
    ReturnedOk
    => /\ Elements(ret.value) = NormalClosure(Elements(roots))
       /\ Len(ret.value) = Cardinality(Elements(ret.value))

\* C10: a root given twice, an edge with both kinds whose target is returned,
\* an edge back to the root, and a package behind a Development edge alone.
C10_Witness ==
    /\ ReturnedOk
    /\ roots = <<"a", "a">>
    /\ EdgeKinds("a", "b") = {"Development", "Normal"}
    /\ EdgeKinds("b", "a") = {"Normal"}
    /\ EdgeKinds("a", "c") = {"Development"}
    /\ ret.value = <<"a", "b">>

\* The id has no package in metadata.packages, or no node in the graph.
Missing(id) ==
    \/ id \notin Elements(packages)
    \/ id \notin { resolve.nodes[i].id : i \in 1..Len(resolve.nodes) }

ErrorMessages ==
    { "Couldn't load resolve graph", "Couldn't find package",
      "Couldn't find deps for package" }

\* C11: resolve_packages returns an error, and with it no package list at
\* all, exactly when the resolve graph is absent (whatever the roots, an
\* empty root list included) or an id reached from the roots along Normal
\* edges has no package or no node; the packages gathered before the error
\* are not returned.
C11_FailsAsAWhole ==
    rpc = "returned"
    => /\ ret.kind = "Err"
          <=> \/ resolve = NoResolve
              \/ \E id \in NormalClosure(Elements(roots)) : Missing(id)
       /\ ret.kind = "Err"
          => /\ ret.value \in ErrorMessages \X (IdSet \cup {""})
             /\ ret.value[1] = "Couldn't load resolve graph" <=> resolve = NoResolve
             /\ ret.value[1] = "Couldn't find package"
                => ret.value[2] \notin Elements(packages)

\* C11: the target of a Normal edge has no package; the root was already
\* gathered in result and the error is returned in its place.
C11_Witness ==
    /\ rpc = "returned"
    /\ ret = Err("Couldn't find package", "c")
    /\ roots = <<"a">>
    /\ result = <<"a">>

(***************************************************************************)
(* Further claims about License::can_include, checked under SpecCompat.    *)
(***************************************************************************)
\* Neither Custom, nor File, nor Multiple.
Plain(l) == l.tag \notin {"Custom", "File", "Multiple"}

\* C19: when the dependency is not Unspecified and neither side is Custom,
\* File or Multiple, and the consumer or the dependency is LGPL-2.0,
\* can_include returns Unknown whatever the other side is (LGPL-2.0 against
\* LGPL-2.0 and Unspecified against LGPL-2.0 included): the answer is never
\* the Yes or No a row of the table would give, not even the Yes its
\* LGPL-2.0 row holds for LGPL-2.0.
C19_LGPL_2_0IsUnknown ==
    (/\ Returned
     /\ dependency # Unspecified
     /\ Plain(consumer)
     /\ Plain(dependency)
     /\ "LGPL_2_0" \in {consumer.tag, dependency.tag})
    => answer = Unknown

\* C19: a consumer whose table row does not list LGPL-2.0, against it.
C19_Witness ==
    /\ Returned
    /\ consumer = Lic("MIT")
    /\ dependency = Lic("LGPL_2_0")
    /\ answer = Unknown

\* C20: stronger copyleft may include all that weaker copyleft may include:
\* every dependency LGPL-3.0-only may include (Yes) GPL-3.0-only and
\* AGPL-3.0-only may include, every dependency LGPL-2.1-only may include
\* GPL-2.0-only may include, and every dependency GPL-3.0-only may include
\* AGPL-3.0-only may include.
C20_StrongerCopyleftIncludesMore ==
    (Returned /\ answer = Yes)
    => /\ consumer = Lic("LGPL_3_0")
          => /\ can_include(Lic("GPL_3_0"), dependency) = Yes
             /\ can_include(Lic("AGPL_3_0"), dependency) = Yes
       /\ consumer = Lic("LGPL_2_1")
          => can_include(Lic("GPL_2_0"), dependency) = Yes
       /\ consumer = Lic("GPL_3_0")
          => can_include(Lic("AGPL_3_0"), dependency) = Yes

(***************************************************************************)
(* Claims about check::run, checked under SpecCheck.                       *)
(***************************************************************************)
\* The packages other than the root whose license gives this answer.
OthersWith(a) ==
    { i \in 1..Len(check_packages) :
        /\ check_packages[i].id # check_root.id
        /\ can_include(check_root.license, check_packages[i].license) = a }

\* C17: the check of one root against its packages fails exactly when
\* can_include(root license, package license) is No for at least one
\* package other than the root; an Unknown is logged as a warning and does
\* not make it fail, and the root is never checked against itself.
C17_FailsExactlyOnNo ==
    kpc = "returned"
    => /\ check_ret.kind = "Err" <=> OthersWith(No) # {}
       /\ fail = Cardinality(OthersWith(No))
       /\ Len(log) = Cardinality(OthersWith(No)) + Cardinality(OthersWith(Unknown))
       /\ \A k \in 1..Len(log) :
             /\ log[k].id # check_root.id
             /\ log[k].level = "warn"
                <=> \E i \in OthersWith(Unknown) : check_packages[i].id = log[k].id

\* C17: a root that may not include itself (its license is Unspecified) and
\* whose only other package gives Unknown: a warning, and the check passes.
C17_Witness ==
    /\ kpc = "returned"
    /\ check_root.license = Unspecified
    /\ Len(check_packages) = 2
    /\ check_packages[2].license = Lic("LGPL_2_0")
    /\ Len(log) = 1
    /\ log[1].level = "warn"
    /\ check_ret = Ok(<<>>)

(***************************************************************************)
(* Claims about check_against_template, checked under SpecScore.           *)
(***************************************************************************)
\* A text was scored against the template its license has.
Scored == spc = "returned" /\ scored.tag \in TemplateTags

\* How many times the word stands in the list of words, from position i on.
RECURSIVE Occurrences(_, _, _)

Occurrences(w, words, i) ==
    IF i > Len(words) THEN 0
    ELSE (IF to_lowercase(words[i]) = w THEN 1 ELSE 0) + Occurrences(w, words, i + 1)

\* The words of a text, letter case put aside.
WordSet(t) ==
    LET words == FindWords(t, 1, <<>>)
    IN  { to_lowercase(words[k]) : k \in 1..Len(words) }

\* The number of words, and the sum over all words of the difference between
\* the count in the text and the count in the template, both counted from
\* the texts.
WordCount(t) == Len(FindWords(t, 1, <<>>))

RECURSIVE Distance(_, _, _)

Distance(t, u, S) ==
    IF S = {} THEN 0
    ELSE LET w == CHOOSE x \in S : TRUE
             d == Occurrences(w, FindWords(t, 1, <<>>), 1)
                  - Occurrences(w, FindWords(u, 1, <<>>), 1)
         IN  (IF d < 0 THEN 0 - d ELSE d) + Distance(t, u, S \ {w})

\* C12: for a license that has a template, errors is the sum over the
\* template's words of |count in text - count in template| plus the counts
\* of the text's words the template does not hold, total is the number of
\* words of the template, and the tier is Confident when 10*errors < total,
\* SemiConfident when total <= 10*errors and 20*errors < 3*total, Unsure
\* when 20*errors >= 3*total.
C12_ExactThresholds ==
    Scored
    => /\ total = WordCount(template(scored))
       /\ errors = Distance(text, template(scored),
                            WordSet(text) \cup WordSet(template(scored)))
       /\ confidence = "Confident" <=> 10 * errors < total
       /\ confidence = "SemiConfident"
          <=> (total <= 10 * errors /\ 20 * errors < 3 * total)
       /\ confidence = "Unsure" <=> 20 * errors >= 3 * total

\* C12: the score is exactly one tenth: a template of ten words and a text
\* that lacks one of them.
C12_Witness ==
    /\ Scored
    /\ total = 10
    /\ errors = 1
    /\ confidence = "SemiConfident"

\* C13: a text equal to the template of its license has 0 errors and is
\* Confident; errors is 0 exactly when the text and the template have the
\* same case-insensitive word-frequency map, whatever the order of the
\* words, their letter case and the spaces and punctuation between them;
\* and compare gives the same number with its two maps exchanged.
C13_ZeroErrorsIffSameWords ==
    Scored
    => LET text_freq == calculate_frequency(text)
           template_freq == calculate_frequency(template(scored))
       IN  /\ text = template(scored) => (errors = 0 /\ confidence = "Confident")
           /\ errors = 0 <=> text_freq = template_freq
           /\ text_freq = template_freq
              <=> \A w \in WordSet(text) \cup WordSet(template(scored)) :
                    Occurrences(w, FindWords(text, 1, <<>>), 1)
                    = Occurrences(w, FindWords(template(scored), 1, <<>>), 1)
           /\ errors = compare(template_freq, text_freq)

\* C13: the words of the template in another order, another case and with
\* other punctuation.
C13_Witness ==
    /\ Scored
    /\ text = <<"software", ".", "The">>
    /\ template(scored) = <<"the", " ", "software", ".">>
    /\ errors = 0
    /\ confidence = "Confident"

(***************************************************************************)
(* Claims about choose and bundle::run, checked under SpecBundle.          *)
(***************************************************************************)
\* The calls of choose whose result is kept: <<p, k>> for the k-th license
\* searched for the p-th package.
ChooseCalls ==
    { c \in (1..Len(liches)) \X (1..2) :
        /\ liches[c[1]].kind = "Ok"
        /\ c[2] <= Len(found[c[1]]) }

\* The candidates the call was given and the pair it returned.
Candidates(c) == found[c[1]][c[2]].value

Choice(c) == liches[c[1]].value.texts.choices[c[2]]

TierRank(t) ==
    CASE t = "Confident" -> 1
      [] t = "SemiConfident" -> 2
      [] t = "Unsure" -> 3
      [] t = "NoTemplate" -> 4

\* The positions of the candidates of the best tier there is.
BestPositions(texts) ==
    { i \in 1..Len(texts) :
        \A j \in 1..Len(texts) :
            TierRank(texts[i].confidence) <= TierRank(texts[j].confidence) }

\* C14: choose selects the best tier that has a candidate, in the order
\* Confident > SemiConfident > Unsure > NoTemplate: the tier reported is the
\* best tier of any candidate given, the text chosen (the first one when
\* several share that tier) is the earliest candidate of that tier in the
\* order of discovery, and it is one of the candidates given.
C14_BestTierEarliestCandidate ==
    \A c \in ChooseCalls :
        Candidates(c) # <<>>
        => LET texts == Candidates(c)
               first == CHOOSE i \in BestPositions(texts) :
                            \A j \in BestPositions(texts) : i <= j
           IN  /\ Choice(c).info = texts[first].confidence
               /\ Written(Choice(c).best) = <<texts[first]>>
               /\ Written(Choice(c).best)[1] \in Elements(texts)
               /\ Choice(c).best.kind = "Multiple"
                  <=> Cardinality(BestPositions(texts)) > 1

\* C14: a candidate of a lower tier found first, and two of the best tier
\* there is after it.
C14_Witness ==
    \E c \in ChooseCalls :
        /\ Len(Candidates(c)) = 3
        /\ Candidates(c)[1].confidence = "Unsure"
        /\ Candidates(c)[2].confidence = "SemiConfident"
        /\ Candidates(c)[3].confidence = "SemiConfident"
        /\ Choice(c).info = "SemiConfident"
        /\ Written(Choice(c).best) = <<Candidates(c)[2]>>

BundleReturned == bpc = "returned"

\* C15: when choose is given an empty list of candidates, no text is chosen,
\* a missing-license diagnostic is recorded in the issues of the run, the
\* missing_license flag of the run becomes true and the bundle run ends in
\* failure.
C15_EmptyListFailsRun ==
    BundleReturned
    => \A c \in ChooseCalls :
          Candidates(c) = <<>>
          => /\ Choice(c).best = None
             /\ "MissingLicenseFile" \in Elements(context.issues)
             /\ context.missing_license
             /\ bundle_ret.kind # "Ok"

\* C16: when choose is given two or more Confident candidates, the text
\* chosen is the first of them in the order of discovery, an ambiguity
\* diagnostic is recorded in the issues of the run and the
\* low_quality_license flag of the run is left as it was.
C16_AmbiguityRecorded ==
    BundleReturned
    => \A c \in ChooseCalls :
          Len(WithConfidence(Candidates(c), "Confident")) >= 2
          => /\ Written(Choice(c).best)
                = <<WithConfidence(Candidates(c), "Confident")[1]>>
             /\ "MultiplePossibleLicenseFiles" \in Elements(context.issues)
             /\ ~context.low_quality_license

\* A call of better_find ended with the error of read_dir.
DirectoryUnreadable ==
    \E p \in 1..Len(found) : \E k \in 1..Len(found[p]) : found[p][k].kind = "Err"

\* C18: a bundle run in which the directory of some package could not be
\* listed during the discovery returns an error; it does not complete with
\* success.
C18_UnreadableDirectoryIsFatal ==
    (BundleReturned /\ DirectoryUnreadable) => bundle_ret.kind # "Ok"

(***************************************************************************)
(* Claims about the table of can_include, checked under SpecCompat.        *)
(***************************************************************************)
\* C21: with the consumer Unspecified and a dependency that is a single
\* canonical identifier other than LGPL-2.0, can_include is Yes only for a
\* dependency of the most permissive tier (Unlicense, 0BSD, CC0-1.0, MIT,
\* X11) and No for every other dependency.
C21_UnspecifiedConsumerPermissiveOnly ==
    (/\ Returned
     /\ consumer = Unspecified
     /\ dependency.tag \in CanonicalTags \ {"LGPL_2_0"})
    => /\ answer = Yes => dependency.tag \in Permissive
       /\ dependency.tag \notin Permissive => answer = No

\* C29: can_include(X, X) is Yes for every single canonical identifier X
\* other than LGPL-2.0, Zlib and Apache-2.0 WITH LLVM-exception included.
C29_ReflexiveOnCanonical ==
    (/\ Returned
     /\ consumer.tag \in CanonicalTags \ {"LGPL_2_0"}
     /\ dependency = consumer)
    => answer = Yes

(***************************************************************************)
(* Termination of resolve_packages, checked under SpecResolveLive.         *)
(***************************************************************************)
\* There is a cycle of Normal edges through x.
OnNormalCycle(x) ==
    \E y \in IdSet : "Normal" \in EdgeKinds(x, y) /\ x \in NormalClosure({y})

\* C22: resolve_packages terminates on every finite graph, cycles of Normal
\* edges included: it always returns; no package is expanded a second time
\* (result never holds a package twice and holds as many as were added);
\* and a cycle in itself gives a normal result, an error being returned for
\* an absent graph or a missing package or node only.
C22_TerminatesOnCycles ==
    /\ <>(rpc = "returned")
    /\ [](/\ Len(result) = Cardinality(Elements(result))
          /\ Elements(result) \subseteq added
          /\ Len(result) <= Len(PkgIds))
    /\ []((/\ rpc = "returned"
           /\ resolve # NoResolve
           /\ \A id \in NormalClosure(Elements(roots)) : ~Missing(id))
          => ret.kind = "Ok")

\* C22: two packages that depend on each other along Normal edges, and the
\* result returned for one of them as root.
C22_Witness ==
    /\ rpc = "returned"
    /\ roots = <<"b">>
    /\ OnNormalCycle("b")
    /\ EdgeKinds("b", "a") = {"Normal"}
    /\ EdgeKinds("a", "b") = {"Normal"}
    /\ ret = Ok(<<"b", "a">>)

(***************************************************************************)
(* Further claims about from_str and Display, checked under SpecParse.     *)
(***************************************************************************)
\* C27: the value parsed from any string never has a Multiple as a member
\* of a Multiple, and every Multiple parsed has at least two members, so
\* that displaying it never reads the first member of an empty list.
C27_MultipleIsFlatAndPlural ==
    (Parsed /\ license.tag = "Multiple")
    => /\ Len(license.arg) >= 2
       /\ \A i \in 1..Len(license.arg) : license.arg[i].tag # "Multiple"
       /\ fmt(license) # Panicked

\* C27: a string that ends with its separator, and one that holds both
\* separators.
C27_Witness ==
    /\ Parsed
    /\ input = <<"MIT", "/">>
    /\ license = Multiple(<<Lic("MIT"), Custom(<<>>)>>)

\* C28: for every input string s, parse(display(parse(s))) is parse(s):
\* for the Multiple values (displayed as their members joined by " / "),
\* the Custom values and the Multiple values with an empty Custom member
\* (from "MIT/") too.
C28_DisplayInvertsParse ==
    (input # NoString /\ ppc \in {"redisplay", "done"}) => reparsed = license

\* The packages of several licenses that get_lich was called for.
MultiplePackages ==
    { p \in 1..Len(liches) : bundle_packages[p].license.tag = "Multiple" }

\* C26: for a package whose license is Multiple, better_find and choose are
\* run once per member with that member alone (the texts are scored against
\* the template of that member only, never against the Multiple value), and
\* the list of results has the length and the order of the member list; a
\* failing search ends the calls for the package.
C26_OncePerMemberInOrder ==
    \A p \in MultiplePackages :
        LET members == bundle_packages[p].license.arg
        IN  /\ Len(found[p]) <= Len(members)
            /\ \A k \in 1..Len(found[p]) :
                  /\ found[p][k] \in BetterFindResults(members[k])
                  /\ found[p][k].kind = "Ok"
                     => \A i \in 1..Len(found[p][k].value) :
                           found[p][k].value[i].confidence \in TiersFor(members[k])
            /\ liches[p].kind = "Ok"
               => /\ Len(found[p]) = Len(members)
                  /\ liches[p].value.texts.kind = "Multiple"
                  /\ Len(liches[p].value.texts.choices) = Len(members)
                  /\ \A k \in 1..Len(members) :
                        liches[p].value.texts.choices[k] = choose(found[p][k].value)
            /\ liches[p].kind = "Err"
               => found[p][Len(found[p])].kind = "Err"

\* C26: a package licensed MIT and X11 whose directory gave an MIT text
\* scored Confident and an X11 text that no template exists for: the two
\* results stand in the order of the members.
C26_Witness ==
    \E p \in MultiplePackages :
        /\ liches[p].kind = "Ok"
        /\ bundle_packages[p].license.arg = <<Lic("MIT"), Lic("X11")>>
        /\ liches[p].value.texts.choices[1].info = "Confident"
        /\ liches[p].value.texts.choices[2].info = "NoTemplate"
        /\ liches[p].value.texts.choices[2].best.kind = "Single"

(***************************************************************************)
(* Claims about better_find, checked under SpecFind.                       *)
(***************************************************************************)
\* The entries of the directory whose file could be read as text.
ReadableEntries ==
    { i \in 1..Len(dir) : dir[i].content \in {"Confident", "Unsure"} }

\* The lowercased slug of each file name, worked out once.
SlugOf == [n \in FileNames |-> Recase(slugify(n), UpperCase, LowerCase)]

\* Whether the slug of the name is a synonym of the license, whether it
\* holds one, and whether it holds the word "license".
SynonymTable ==
    [l \in FindLicenses |-> [n \in FileNames |->
        [is |-> \E k \in 1..Len(synonyms(l)) : SlugOf[n] = synonyms(l)[k],
         holds |-> \E k \in 1..Len(synonyms(l)) : Contains(SlugOf[n], synonyms(l)[k])]]]

SlugIsSynonym(name) == SynonymTable[find_license][name].is

SlugHoldsSynonym(name) == SynonymTable[find_license][name].holds

LicenseWordTable == [n \in FileNames |-> Contains(SlugOf[n], <<"l", "i", "c", "e", "n", "s", "e">>)]

SlugHoldsLicense(name) == LicenseWordTable[name]

\* The entries whose text was taken as a specific match so far.
TakenAsSpecific == { find_texts[k].path : k \in 1..Len(find_texts) }

\* C23: a directory entry is a specific match for the license whenever its
\* slug-normalized file name equals or contains one of the synonyms of the
\* license ("MIT.txt" or "COPYING-MIT" for MIT), with no further condition
\* on the name.
C23_SynonymAnywhereMatches ==
    fpc = "loop"
    => \A i \in ReadableEntries :
          (i <= entry_pos /\ (SlugIsSynonym(dir[i].name) \/ SlugHoldsSynonym(dir[i].name)))
          => i \in TakenAsSpecific

\* C23: a directory entry is a specific match for the license exactly when
\* its slug-normalized file name equals one of the synonyms of the license,
\* or contains both the word "license" and one of the synonyms: "MIT" and
\* "LICENSE-MIT" match MIT, "MIT.txt" does not.
C23_SynonymWithLicenseMatches ==
    fpc = "loop"
    => TakenAsSpecific
       = { i \in ReadableEntries :
             /\ i <= entry_pos
             /\ \/ SlugIsSynonym(dir[i].name)
                \/ SlugHoldsLicense(dir[i].name) /\ SlugHoldsSynonym(dir[i].name) }

\* C23: MIT.txt was passed over and LICENSE-MIT taken, both readable.
C23_Witness ==
    /\ fpc = "loop"
    /\ find_license = Lic("MIT")
    /\ entry_pos = 2
    /\ dir[1].name = <<"M", "I", "T", ".", "t", "x", "t">>
    /\ dir[1].content = "Confident"
    /\ dir[2].name = <<"L", "I", "C", "E", "N", "S", "E", "-", "M", "I", "T">>
    /\ TakenAsSpecific = {2}

FindReturned == fpc = "returned"

\* name_matches and generic_license_name for each file name, worked out
\* once.
SpecificTable == [l \in FindLicenses |-> [n \in FileNames |-> name_matches(n, l)]]

GenericTable == [n \in FileNames |-> generic_license_name(n)]

\* The readable entries that are specific matches, and those that are not
\* but have a generic name.
SpecificEntries == { i \in ReadableEntries : SpecificTable[find_license][dir[i].name] }

GenericEntries == { i \in ReadableEntries \ SpecificEntries : GenericTable[dir[i].name] }

ReturnedPaths == { find_ret.value[k].path : k \in 1..Len(find_ret.value) }

\* C24: better_find returns a file of a generic name only as its sole
\* candidate and only when no specific match was read: the result is empty,
\* or one generic candidate, or the specific matches in the order of
\* discovery, never both kinds; a matched file that cannot be read is
\* skipped and does not fail the scan, which fails only when the directory
\* or one of its entries cannot be listed.
C24_GenericOnlyAsFallback ==
    FindReturned
    => /\ find_ret.kind = "Err"
          <=> (dir = Unlistable \/ \E i \in 1..Len(dir) : dir[i] = EntryError)
       /\ find_ret.kind = "Ok"
          => /\ \A k \in 1..Len(find_ret.value) :
                   /\ find_ret.value[k].confidence = dir[find_ret.value[k].path].content
                   /\ \A j \in 1..(k - 1) : find_ret.value[j].path < find_ret.value[k].path
             /\ ReturnedPaths \subseteq ReadableEntries
             /\ SpecificEntries # {} => ReturnedPaths = SpecificEntries
             /\ SpecificEntries = {}
                => /\ ReturnedPaths \subseteq GenericEntries
                   /\ Len(find_ret.value) <= 1
                   /\ GenericEntries # {} => Len(find_ret.value) = 1

\* C24: a generic file between a specific match that cannot be read and one
\* that can: the one specific match that was read is returned alone.
C24_Witness ==
    /\ FindReturned
    /\ find_license = Lic("MIT")
    /\ Len(dir) = 3
    /\ dir[1] = [name |-> <<"M", "I", "T">>, content |-> "unreadable"]
    /\ dir[2] = [name |-> <<"L", "I", "C", "E", "N", "S", "E">>, content |-> "Confident"]
    /\ dir[3] = [name |-> <<"L", "I", "C", "E", "N", "S", "E", "-", "M", "I", "T">>, content |-> "Unsure"]
    /\ find_ret = Ok(<<LicenseText(3, "Unsure")>>)

\* The entries of a generic name that are no specific match, readable or
\* not.
GenericNamed ==
    { i \in 1..Len(dir) :
        /\ dir[i] # EntryError
        /\ GenericTable[dir[i].name]
        /\ ~SpecificTable[find_license][dir[i].name] }

Last(S) == CHOOSE i \in S : \A j \in S : j <= i

\* C25: when the directory holds several generic license files (LICENSE,
\* LICENCE, LICENSE.MD, LICENSE.TXT, letter case put aside) and no specific
\* match, better_find keeps at most one of them, and it is the last one met
\* in the order of the directory.
C25_LastGenericEncountered ==
    (/\ FindReturned
     /\ find_ret.kind = "Ok"
     /\ SpecificEntries = {}
     /\ Cardinality(GenericNamed) >= 2)
    => /\ Len(find_ret.value) <= 1
       /\ \A k \in 1..Len(find_ret.value) : find_ret.value[k].path = Last(GenericNamed)

\* C25: when the directory holds several generic license files and no
\* specific match was read, better_find keeps at most one of them: the last
\* one, in the order of the directory, that could be read as text; a generic
\* file met later that cannot be read does not displace it.
C25_LastGenericRead ==
    (/\ FindReturned
     /\ find_ret.kind = "Ok"
     /\ SpecificEntries = {}
     /\ Cardinality(GenericNamed) >= 2)
    => /\ Len(find_ret.value) <= 1
       /\ GenericEntries # {}
          => find_ret.value = <<LicenseText(Last(GenericEntries),
                                            dir[Last(GenericEntries)].content)>>
       /\ GenericEntries = {} => find_ret.value = <<>>

\* C25: three generic files, the last of which cannot be read: the second
\* is returned.
C25_Witness ==
    /\ FindReturned
    /\ Len(dir) = 3
    /\ dir[1] = [name |-> <<"L", "I", "C", "E", "N", "S", "E", ".", "m", "d">>, content |-> "Confident"]
    /\ dir[2] = [name |-> <<"l", "i", "c", "e", "n", "c", "e">>, content |-> "Unsure"]
    /\ dir[3] = [name |-> <<"L", "I", "C", "E", "N", "S", "E">>, content |-> "unreadable"]
    /\ find_ret = Ok(<<LicenseText(2, "Unsure")>>)

(***************************************************************************)
(* Claims about check mode, checked under SpecMain.                        *)
(***************************************************************************)
\* resolve_packages has an error for this root alone.
Unresolvable(root) ==
    \/ resolve = NoResolve
    \/ \E id \in NormalClosure({root}) : Missing(id)

\* The positions of the roots that cannot be resolved, and the position the
\* command stops at (one past the last root when there is none).
UnresolvableRoots == { k \in 1..Len(main_roots) : Unresolvable(main_roots[k]) }

StopsAt ==
    IF UnresolvableRoots = {} THEN Len(main_roots) + 1
    ELSE CHOOSE k \in UnresolvableRoots : \A j \in UnresolvableRoots : k <= j

\* A package reachable from the root that the license of the root cannot
\* include.
Incompatible(root) ==
    \E id \in NormalClosure({root}) \ {root} :
        can_include(metadata_licenses[root], metadata_licenses[id]) = No

\* C30: in check mode every root is resolved and checked in turn, each
\* against the packages reachable from that root alone; a failed check of an
\* earlier root does not stop the checks of the later ones, and the command
\* fails at the end exactly when the check of some root failed, whereas an
\* error of resolve_packages for a root ends the command at once, with that
\* error and without checking that root or a later one.
C30_EveryRootCheckedErrorAtEnd ==
    /\ Len(checks) < StopsAt
    /\ \A k \in 1..Len(checks) :
          /\ checks[k].root = PackageOf(main_roots[k])
          /\ { checks[k].packages[i].id : i \in 1..Len(checks[k].packages) }
                = NormalClosure({main_roots[k]})
          /\ checks[k].ret.kind = "Err" <=> Incompatible(main_roots[k])
    /\ mpc = "returned"
       => /\ Len(checks) = StopsAt - 1
          /\ IF UnresolvableRoots # {}
             THEN /\ main_ret.kind = "Err"
                  /\ main_ret.value[1] \in ErrorMessages
             ELSE /\ main_ret.kind = "Err" <=> \E k \in 1..Len(checks) : checks[k].ret.kind = "Err"
                  /\ main_ret.kind = "Err" => main_ret.value[1] = "Incompatible license"
                  /\ main_ret.kind \in {"Ok", "Err"}

\* C30: two roots, the check of the first failed and the check of the second,
\* against other packages, passed: the command went on and failed at the end.
C30_Witness ==
    /\ mpc = "returned"
    /\ Len(checks) = 2
    /\ checks[1].ret.kind = "Err"
    /\ checks[2].ret.kind = "Ok"
    /\ Len(checks[2].packages) > 1
    /\ checks[1].packages # checks[2].packages
    /\ main_ret.kind = "Err"
====
